---- MODULE Spec2Model ----
(***************************************************************************)
(* Outgoing-message delivery (sendNormalMessage) and decryption-failure    *)
(* recovery (onRetryRequest / onDecryptionError) of Signal-Desktop.        *)
(*                                                                         *)
(* The specifications share the variables below:                           *)
(*   Spec      recovery handlers, run from await to await, on any event    *)
(*   SpecConc  recovery handlers started while others are suspended        *)
(*   SpecQueue the conversation job queue with the jobs of the handlers    *)
(*   SpecSend  attempts of sendNormalMessage for one message               *)
(***************************************************************************)
EXTENDS Integers, Sequences, FiniteSets, TLC

VARIABLES
  retryRecord,   \* Map<number, number>: event timestamp -> times seen
  sessions,      \* session store: requester uuid -> current ratchet key
  jobs,          \* conversationJobQueue: jobs added and not yet run
  resetQueue,    \* lightSessionResetQueue: scheduled (uuid, device) resets
  timeline,      \* per conversation: queued addChatSessionRefreshed jobs
  last,          \* the event of the handler that finished last, with its outcome
  hpc,           \* the await every running handler is suspended at
  hreq,          \* the event every running handler works on
  hloc,          \* the locals every running handler holds
  hist,          \* SpecConc: events seen by and past the rate check and jobs added, per timestamp
  sendState,     \* SpecSend: message.sendStateByConversationId (in memory)
  msgErrors,     \* SpecSend: message.errors (in memory)
  saved,         \* SpecSend: the message as last written by saveMessage
  savePending,   \* SpecSend: a saveMessage call whose result nobody awaits
  msgStatus,     \* SpecSend: what getMessageById and the first guards see
  conv,          \* SpecSend: kind of the conversation the job belongs to
  jobState,      \* SpecSend: "none", "queued" (will be run), "running", "done"
  verificationPending, \* SpecSend: the conversation was reported as stopped by missing verification
  lastSend,      \* SpecSend: what the latest attempt did
  attempt,       \* SpecSend: the attempt that is running, and the await it is at
  inFlight,      \* SpecQueue: jobs the job queue has started and not finished, each with the place it is at
  groupSends,    \* SpecQueue: conversation.queueJob, the group sends queued or running, by conversation
  sentProtos,    \* the sent-proto store: (recipient, timestamp) -> record
  tree,          \* SpecTree: the range tree built by insertRange so far
  ins,           \* SpecTree: the latest insertRange call and the tree it was given
  sorting        \* SpecSort: the latest sortRanges call, its input and result

vars == << retryRecord, sessions, jobs, resetQueue, timeline, last, hpc, hreq, hloc, hist,
           sendState, msgErrors, saved, savePending, msgStatus, conv,
           jobState, verificationPending, lastSend, attempt, inFlight,
           groupSends, sentProtos,
           tree, ins, sorting >>

recoveryVars == << retryRecord, sessions, jobs, resetQueue, timeline, last >>
concVars == << hpc, hreq, hloc, hist >>
sendVars == << sendState, msgErrors, saved, savePending, msgStatus, conv,
               jobState, verificationPending, lastSend, attempt >>
queueVars == << inFlight, groupSends >>
protoVars == << sentProtos >>
rangeVars == << tree, ins, sorting >>

----------------------------------------------------------------------------
(* Constants of the recovery handler *)

RETRY_LIMIT == 5
HOUR == 60 * 60 * 1000
DAY == 24 * HOUR
DefaultRetryRespondMaxAge == 14 * DAY

(* Bounds of the model *)
MaxSeen == 7      \* events delivered per timestamp
MaxHandlers == 2  \* handlers running at the same time
MaxPending == 1   \* jobs waiting in the conversation job queue (SpecConc)
MaxQueued == 2    \* jobs waiting in the conversation job queue (SpecQueue)
MaxEvents == 2    \* events delivered per timestamp (SpecQueue)
MaxResets == 1    \* session resets scheduled and not yet run (SpecConc)

(* The environment the handlers run in *)
NoGroup == "none"
NoKey == "none"
NoList == "none"
NoDistribution == "none"
NoRequest == "none"

OurDeviceId == 1
Now == 20 * DAY
TOld == Now - (15 * DAY)
TNew == Now - DAY
Timestamps == {TOld, TNew}
Requesters == {"r1", "r2"}
RequesterDevices == {1}
RequestGroups == {NoGroup, "g1", "g2"}
SenderDevices == {1, 2}
RatchetKeys == {"k1", "k2"}
ConfiguredMaxAges == {0, HOUR, 16 * DAY}   \* 0: flag unset or unparsable

Groups == {"g1", "g2"}
GroupMembers(g) == IF g = "g1" THEN {"r1", "r2"} ELSE {"r1"}
GroupDistributionId(g) == IF g = "g1" THEN "d1" ELSE NoDistribution
DistributionsInDatabase == {"d1", "d2"}

DistributionLists == {"l1", "l2"}
ListMembers(l) == IF l = "l1" THEN {"r2"} ELSE {}
ListDistributionId(l) == IF l = "l1" THEN "d2" ELSE NoDistribution

\* Messages by id: the conversation each belongs to ("m0" was deleted).
MessageIds == {"m1", "m2"}
MessageConversation(m) == IF m = "m1" THEN "g1" ELSE "g2"
\* Story messages by sent_at: the distribution list each was sent to.
StoryListsSentAt(t) == IF t = TNew THEN <<"l2", "l1">> ELSE <<"l1">>

NoProto == [found |-> FALSE, contentHint |-> "DEFAULT", messageIds |-> << >>,
            story |-> FALSE, timestamp |-> 0, urgent |-> FALSE]
\* The sent-proto table: what was sent to whom, keyed by recipient and timestamp.
SentProtoTable(recipientUuid, timestamp) ==
  IF recipientUuid = "r1" /\ timestamp = TOld
    THEN [found |-> TRUE, contentHint |-> "IMPLICIT", messageIds |-> <<"s1", "s2">>,
          story |-> TRUE, timestamp |-> TOld, urgent |-> FALSE]
  ELSE IF recipientUuid = "r1" /\ timestamp = TNew
    THEN [found |-> TRUE, contentHint |-> "RESENDABLE", messageIds |-> <<"m1">>,
          story |-> FALSE, timestamp |-> TNew, urgent |-> TRUE]
  ELSE IF recipientUuid = "r2" /\ timestamp = TNew
    THEN [found |-> TRUE, contentHint |-> "IMPLICIT", messageIds |-> <<"s1", "s2">>,
          story |-> TRUE, timestamp |-> TNew, urgent |-> FALSE]
  ELSE NoProto

----------------------------------------------------------------------------
(* Collaborators of the recovery handler *)

\* isOlderThan(timestamp, delta) with Date.now() = Now
isOlderThan(timestamp, delta) == timestamp <= Now - delta

\* parseIntOrThrow(RemoteConfig.getValue('desktop.retryRespondMaxAge')), with
\* the default kept when the value does not parse
retryRespondMaxAge(configured) ==
  IF configured = 0 THEN DefaultRetryRespondMaxAge ELSE configured

\* window.ConversationController.get(id): the conversation, or undefined
NoConversation == "none"
ConversationGet(id) ==
  IF id \in Groups \cup Requesters THEN id ELSE NoConversation

\* conversation.hasMember(uuid)
hasMember(conversation, uuid) ==
  IF conversation \in Groups THEN uuid \in GroupMembers(conversation)
  ELSE uuid = conversation

isGroupV2(conversation) == conversation \in Groups

\* ProtoRecordStore.getSentProto: the record the store keeps for the
\* recipient and the timestamp, or none. The store is not part of the
\* source at hand; the current time it is handed has no part in the lookup
\* as the interface describes it
SentProtoGet(now, recipientUuid, timestamp) ==
  sentProtos[<< recipientUuid, timestamp >>]

\* ProtoRecordStore: the records the store keeps once a lookup handed the
\* time `now` is through; by the interface a lookup leaves them as they are
SentProtosAfterGet(now) == sentProtos

\* faulty call: the record of the recipient's latest message is asked for
\* whatever timestamp the request names
getSentProtoByRecipientAnyTimestamp(recipientUuid, timestamp) ==
  SentProtoGet(Now, recipientUuid, TNew)

\* window.Signal.Data.getSentProtoByRecipient({ now: Date.now(),
\* recipientUuid: requesterUuid, timestamp: sentAt }) as onRetryRequest
\* calls it
getSentProtoByRecipient(recipientUuid, timestamp) ==
  SentProtoGet(Now, recipientUuid, timestamp)

\* A job of the conversation job queue
Job(type, conversationId, timestamp, contentHint, urgent, groupId, story, skdm, senderDevice) ==
  [type |-> type, conversationId |-> conversationId, timestamp |-> timestamp,
   contentHint |-> contentHint, urgent |-> urgent, groupId |-> groupId,
   story |-> story, skdm |-> skdm, senderDevice |-> senderDevice]
----------------------------------------------------------------------------
(* The events, and what a handler holds while it works on one *)

RetryRequests ==
  [groupId : RequestGroups, requesterUuid : Requesters,
   requesterDevice : RequesterDevices, senderDevice : SenderDevices,
   sentAt : Timestamps, ratchetKey : {NoKey} \cup RatchetKeys]

\* the decryption errors handed over: any sender, timestamp and group with
\* the content hint RESENDABLE, and the hint IMPLICIT for errors of r1 on
\* the newer timestamp
DecryptionErrors ==
  [senderUuid : Requesters, senderDevice : RequesterDevices,
   timestamp : Timestamps, cipherOk : BOOLEAN,
   contentHint : {"RESENDABLE"}, groupId : {NoGroup, "g1"}]
  \cup
  [senderUuid : {"r1"}, senderDevice : RequesterDevices,
   timestamp : {TNew}, cipherOk : BOOLEAN,
   contentHint : {"IMPLICIT"}, groupId : {NoGroup, "g1"}]

Addresses == Requesters \X RequesterDevices
Handlers == 1 .. MaxHandlers
EventKinds == {"retry", "decrypt"}

IdleRequest ==
  [groupId |-> NoGroup, requesterUuid |-> "none", requesterDevice |-> 0,
   senderDevice |-> 0, sentAt |-> 0, ratchetKey |-> NoKey]

\* Proto.Content.decode(proto), as far as the handler looks at it
NoContent == [story |-> FALSE, skdm |-> NoDistribution]

\* the locals of a handler. kind, flagOn, configured, delay and cached are
\* what the call found when it started (delay: window.RETRY_DELAY is set;
\* cached: the capability of the sender was in the conversation before the
\* profile was fetched); tracked: the call is counted in hist; the other
\* fields are set as the handler goes
NoLocals ==
  [kind |-> "none", flagOn |-> FALSE, configured |-> 0, cached |-> FALSE,
   delay |-> FALSE, tracked |-> FALSE, retryCount |-> 0, capable |-> FALSE,
   didArchive |-> FALSE, sentProto |-> NoProto, conversation |-> NoConversation,
   contentProto |-> NoContent, groupId |-> NoGroup, list |-> NoList,
   stored |-> FALSE, outcome |-> "none", threw |-> FALSE, confirms |-> 0,
   jobs |-> << >>, resets |-> << >>, addOk |-> << >>]

\* a handler that has returned or thrown, as the receiver sees it
NoEvent ==
  [kind |-> "none", timestamp |-> 0, uuid |-> "none", groupId |-> NoGroup,
   flagOn |-> FALSE, configured |-> 0, retryCount |-> 0,
   outcome |-> "none", threw |-> FALSE, confirms |-> 0, didArchive |-> FALSE,
   jobs |-> << >>, resets |-> << >>, device |-> 0, senderDevice |-> 0,
   ratchetKey |-> NoKey, addOk |-> << >>, cached |-> FALSE, capable |-> FALSE,
   cipherOk |-> FALSE, contentHint |-> "DEFAULT"]

Handled(req, loc) ==
  IF loc.kind = "retry"
    THEN [kind |-> "retry", timestamp |-> req.sentAt,
          uuid |-> req.requesterUuid, groupId |-> req.groupId,
          flagOn |-> loc.flagOn, configured |-> loc.configured,
          retryCount |-> loc.retryCount,
          outcome |-> loc.outcome, threw |-> loc.threw,
          confirms |-> loc.confirms, didArchive |-> loc.didArchive,
          jobs |-> loc.jobs, resets |-> loc.resets,
          device |-> req.requesterDevice, senderDevice |-> req.senderDevice,
          ratchetKey |-> req.ratchetKey, addOk |-> loc.addOk,
          cached |-> FALSE, capable |-> FALSE, cipherOk |-> FALSE,
          contentHint |-> "DEFAULT"]
    ELSE [kind |-> "decrypt", timestamp |-> req.timestamp,
          uuid |-> req.senderUuid, groupId |-> req.groupId,
          flagOn |-> loc.flagOn, configured |-> 0,
          retryCount |-> loc.retryCount,
          outcome |-> loc.outcome, threw |-> loc.threw,
          confirms |-> loc.confirms, didArchive |-> FALSE,
          jobs |-> loc.jobs, resets |-> loc.resets,
          device |-> req.senderDevice, senderDevice |-> 0,
          ratchetKey |-> NoKey, addOk |-> loc.addOk,
          cached |-> loc.cached, capable |-> loc.capable,
          cipherOk |-> req.cipherOk, contentHint |-> req.contentHint]

----------------------------------------------------------------------------
(* The recovery handlers, stretch by stretch. A handler runs without        *)
(* interruption from one await to the next. Every await of the code is a    *)
(* suspension: the await of a store, database or queue call, and the await  *)
(* of one of the handler's own async functions, which resumes in a later    *)
(* turn even when the function returned or threw without awaiting. Each     *)
(* operator below is the code of one stretch: it takes the event and the    *)
(* locals the handler has when it resumes, and gives the await it is        *)
(* suspended at next, or "done" once it has returned or thrown, with the    *)
(* locals it has then.                                                      *)

\* faulty rate check: every second event more gets through
ExceedsRetryLimitEven(retryCount) == retryCount > RETRY_LIMIT /\ retryCount % 2 = 1

\* faulty rate check: one event more gets through
ExceedsRetryLimitOffByOne(retryCount) == retryCount > RETRY_LIMIT + 1

\* retryCount as the locals of the handler hold it after the rate check. The
\* code reads it for the rate check and never again; it is kept for the
\* result of the handler, and left out for a tracked handler, whose result is
\* counted in hist
Kept(loc, retryCount) == IF loc.tracked THEN 0 ELSE retryCount

\* retryCount > RETRY_LIMIT
ExceedsRetryLimit(retryCount) == retryCount > RETRY_LIMIT

\* faulty ledger update: the counters of all timestamps are incremented
BumpRetryRecordAll(record, sentAt) == [t \in DOMAIN record |-> record[t] + 1]

\* faulty ledger update: the incremented count is not stored
BumpRetryRecordNotStored(record, sentAt) == record

\* retryRecord.set(sentAt, (retryRecord.get(sentAt) || 0) + 1)
BumpRetryRecord(record, sentAt) ==
  [record EXCEPT ![sentAt] = record[sentAt] + 1]

\* faulty age check: no request counts as too old
TooOldNever(req, configured) == FALSE

\* isOlderThan(sentAt, retryRespondMaxAge), the flag value parsed or defaulted
TooOld(req, configured) ==
  isOlderThan(req.sentAt, retryRespondMaxAge(configured))

\* faulty FlagDisabled: requests are handled whatever the flag says
FlagDisabledNever(flagOn) == FALSE

\* !RemoteConfig.isEnabled('desktop.senderKey.retry') at the head of
\* onRetryRequest
FlagDisabled(flagOn) == ~flagOn

\* the handler is suspended at the await `pc`
Suspended(pc, loc) == [pc |-> pc, loc |-> loc]

\* the handler returns, or is left by the error of an awaited call
Returned(loc) == [pc |-> "done", loc |-> loc]

\* faulty Confirmed: the handler returns without calling confirm
ConfirmedNever(loc) == Returned(loc)

\* confirm(); return
Confirmed(loc) == Returned([loc EXCEPT !.confirms = @ + 1])

\* throw new Error(...) in the handler itself, or a call it awaits outside a
\* try block rejects: the handler is left without confirm
Thrown(loc) == Returned([loc EXCEPT !.threw = TRUE])

\* an async function of the handler throws: the await of it at `pc` will
\* reject
Rejected(pc, loc) == Suspended(pc, [loc EXCEPT !.threw = TRUE])

\* the awaits of the handlers' own async functions
CallPoints ==
  {"archiveSessionOnMatch", "sendDistributionMessageOrNullMessage",
   "getRetryConversation", "maybeAddSenderKeyDistributionMessage",
   "checkDistributionListAndAddSKDM", "requestResend",
   "startAutomaticSessionReset"}

\* the awaits of conversationJobQueue.add
AddPoints ==
  {"addSenderKeyDistribution", "addNullMessage", "addSavedProto",
   "addResendRequest"}

\* conversationJobQueue.add({type: 'SenderKeyDistribution', ...})
SenderKeyDistributionJob(req) ==
  Job("SenderKeyDistribution", req.requesterUuid, 0, "DEFAULT", FALSE,
      req.groupId, FALSE, NoDistribution, 0)

\* conversationJobQueue.add({type: 'NullMessage', ...})
NullMessageJob(req) ==
  Job("NullMessage", req.requesterUuid, 0, "DEFAULT", FALSE, NoGroup, FALSE,
      NoDistribution, 0)

\* faulty SavedProto job: stamped with the current time
SavedProtoJobFreshTimestamp(sentProto, requesterUuid, contentProto, groupId) ==
  Job("SavedProto", requesterUuid, Now, sentProto.contentHint,
      sentProto.urgent, groupId, contentProto.story, contentProto.skdm, 0)

\* conversationJobQueue.add({type: 'SavedProto', ...}) of onRetryRequest
SavedProtoJob(sentProto, requesterUuid, contentProto, groupId) ==
  Job("SavedProto", requesterUuid, sentProto.timestamp, sentProto.contentHint,
      sentProto.urgent, groupId, contentProto.story, contentProto.skdm, 0)

\* conversationJobQueue.add({type: 'ResendRequest', ...}) of requestResend
ResendRequestJob(err) ==
  Job("ResendRequest", err.senderUuid, err.timestamp, err.contentHint, FALSE,
      err.groupId, FALSE, NoDistribution, err.senderDevice)

\* the job a handler suspended at the add `pc` has handed to the queue
PendingJob(pc, req, loc) ==
  IF pc = "addSenderKeyDistribution" THEN SenderKeyDistributionJob(req)
  ELSE IF pc = "addNullMessage" THEN NullMessageJob(req)
  ELSE IF pc = "addSavedProto"
    THEN SavedProtoJob(loc.sentProto, req.requesterUuid, loc.contentProto,
                       loc.groupId)
  ELSE ResendRequestJob(req)

(* onRetryRequest *)

\* sendDistributionMessageOrNullMessage from `if (!sentDistributionMessage)`
\* to its add of the NullMessage job or, without an archived session, to its
\* return
nullMessageOrReturn(req, loc) ==
  IF ~loc.didArchive
    THEN Suspended("sendDistributionMessageOrNullMessage", loc)
  ELSE Suspended("addNullMessage", loc)

\* faulty distributionMessageAdded: after an archived session the null
\* message is added even when the distribution message was added
distributionMessageAndNullMessage(ok, req, loc) ==
  nullMessageOrReturn(req, loc)

\* sendDistributionMessageOrNullMessage resumes after its add of the
\* SenderKeyDistribution job, which stored the job (ok) or threw
distributionMessageAdded(ok, req, loc) ==
  IF ok THEN Suspended("sendDistributionMessageOrNullMessage", loc)
  ELSE nullMessageOrReturn(req, loc)

\* faulty nullMessageAdded: the null message is added a second time
nullMessageAddedTwice(ok, req, loc) ==
  IF Len(loc.addOk) < 2 THEN Suspended("addNullMessage", loc)
  ELSE Suspended("sendDistributionMessageOrNullMessage", loc)

\* sendDistributionMessageOrNullMessage resumes after its add of the
\* NullMessage job: a failure is logged, and the function returns
nullMessageAdded(ok, req, loc) ==
  Suspended("sendDistributionMessageOrNullMessage", loc)

\* sendDistributionMessageOrNullMessage(logId, options, didArchive) up to its
\* first await, or to its return or throw, which onRetryRequest awaits
sendDistributionMessageOrNullMessage(req, loc) ==
  LET groupId == req.groupId
      group == ConversationGet(groupId)
      known == groupId # NoGroup /\ group # NoConversation
      distributionId == IF known THEN GroupDistributionId(group) ELSE NoDistribution
  IN
  IF known /\ ~hasMember(group, req.requesterUuid)
    THEN Rejected("sendDistributionMessageOrNullMessage", loc)
  ELSE IF known /\ distributionId # NoDistribution
    THEN Suspended("addSenderKeyDistribution", loc)
  ELSE nullMessageOrReturn(req, loc)

\* onRetryRequest resumes after its add of the SavedProto job
savedProtoAdded(ok, req, loc) ==
  IF ok THEN Confirmed([loc EXCEPT !.outcome = "resent"])
  ELSE Thrown([loc EXCEPT !.outcome = "addFailed"])

\* The handlers are called by the message receiver, which runs once
\* window.textsecure.messaging and window.Signal.Services are set up: the
\* throws for a missing `messaging` (131-133, 294-298, 497-502, 570-573) and
\* for a missing lightSessionResetQueue (629-633) are not among the results.
\* onDecryptionError has created the conversation of the sender (226-229)
\* when it starts a reset, so lookupOrCreate finds it (659-668).

\* scheduleSessionReset + the queued addChatSessionRefreshed: the entry added
\* to the light session reset queue
startAutomaticSessionReset(err) == << err.senderUuid, err.senderDevice >>

\* the handler has called startAutomaticSessionReset
WithReset(err, loc) ==
  [loc EXCEPT !.resets = Append(@, startAutomaticSessionReset(err))]

\* faulty resendRequestAdded: the automatic reset is started next to the
\* request
resendRequestAddedAlsoResets(ok, err, loc) ==
  Suspended("requestResend",
            WithReset(err, [loc EXCEPT !.outcome =
                              IF ok THEN "resendRequested" ELSE "resetFallback"]))

\* requestResend resumes after its add of the ResendRequest job; when the add
\* threw it fails over to the automatic reset; then it returns
resendRequestAdded(ok, err, loc) ==
  IF ok THEN Suspended("requestResend",
                       [loc EXCEPT !.outcome = "resendRequested"])
  ELSE Suspended("requestResend",
                 WithReset(err, [loc EXCEPT !.outcome = "resetFallback"]))

\* the handler resumes after the conversationJobQueue.add it awaited at `pc`
afterAdd(pc, ok, req, loc) ==
  IF pc = "addSenderKeyDistribution" THEN distributionMessageAdded(ok, req, loc)
  ELSE IF pc = "addNullMessage" THEN nullMessageAdded(ok, req, loc)
  ELSE IF pc = "addSavedProto" THEN savedProtoAdded(ok, req, loc)
  ELSE resendRequestAdded(ok, req, loc)

\* onRetryRequest resumes with the result of checkDistributionListAndAddSKDM:
\* without one it returns (confirm() was called for it), with one it goes on
\* to the add of the SavedProto job
storyChecked(req, loc) ==
  IF loc.outcome = "storyDropped" THEN Returned(loc)
  ELSE Suspended("addSavedProto", loc)

\* onRetryRequest from the result of maybeAddSenderKeyDistributionMessage to
\* its next await: the first one of checkDistributionListAndAddSKDM for a
\* story without a group, otherwise the add of the SavedProto job
afterSenderKey(req, loc) ==
  IF loc.contentProto.story /\ loc.groupId = NoGroup
    THEN Suspended("getMessagesBySentAt", loc)
  ELSE Suspended("addSavedProto", loc)

\* the first story message sent at `timestamp` whose list holds the requester
RECURSIVE FirstListWith(_, _)
FirstListWith(lists, requesterUuid) ==
  IF lists = << >> THEN NoList
  ELSE IF Head(lists) # NoList /\ Head(lists) \in DistributionLists
          /\ requesterUuid \in ListMembers(Head(lists))
    THEN Head(lists)
  ELSE FirstListWith(Tail(lists), requesterUuid)

\* checkDistributionListAndAddSKDM resumes with the messages sent at the
\* timestamp: for a requester in none of their lists it calls confirm() and
\* returns nothing
checkDistributionListAndAddSKDM(req, loc) ==
  LET distributionList == FirstListWith(StoryListsSentAt(loc.sentProto.timestamp),
                                        req.requesterUuid)
  IN
  IF distributionList = NoList
    THEN Suspended("checkDistributionListAndAddSKDM",
                   [loc EXCEPT !.outcome = "storyDropped", !.confirms = @ + 1])
  ELSE Suspended("getStoryDistributionWithMembers",
                 [loc EXCEPT !.list = distributionList])

\* checkDistributionListAndAddSKDM resumes with the details of the list
storyDistributionLoaded(req, loc) ==
  IF ListDistributionId(loc.list) = NoDistribution
    THEN Suspended("checkDistributionListAndAddSKDM", loc)
  ELSE Suspended("getStorySenderKey", loc)

\* getSenderKeyDistributionMessage(distributionId, {throwIfNotInDatabase})
\* resolves or rejects; checkDistributionListAndAddSKDM returns the content
\* with the message added
storySenderKeyLoaded(req, loc) ==
  LET distributionId == ListDistributionId(loc.list) IN
  IF distributionId \notin DistributionsInDatabase
    THEN Rejected("checkDistributionListAndAddSKDM",
                  [loc EXCEPT !.outcome = "noSenderKey"])
  ELSE Suspended("checkDistributionListAndAddSKDM",
                 [loc EXCEPT !.contentProto.skdm = distributionId])

\* maybeAddSenderKeyDistributionMessage resumes with the sender key
\* distribution message of the group and returns, or the call rejects
senderKeyLoaded(req, loc) ==
  LET distributionId == GroupDistributionId(loc.conversation) IN
  IF distributionId \notin DistributionsInDatabase
    THEN Rejected("maybeAddSenderKeyDistributionMessage",
                  [loc EXCEPT !.outcome = "noSenderKey"])
  ELSE Suspended("maybeAddSenderKeyDistributionMessage",
                 [loc EXCEPT !.contentProto.skdm = distributionId,
                             !.groupId = loc.conversation])

\* faulty maybeAddSenderKeyDistributionMessage: membership is not checked
maybeAddSenderKeyDistributionMessageAnyRequester(req, loc) ==
  LET conversation == loc.conversation IN
  IF conversation = NoConversation \/ ~isGroupV2(conversation)
    THEN Suspended("maybeAddSenderKeyDistributionMessage", loc)
  ELSE IF GroupDistributionId(conversation) # NoDistribution
    THEN Suspended("getSenderKeyDistributionMessage", loc)
  ELSE Suspended("maybeAddSenderKeyDistributionMessage",
                 [loc EXCEPT !.groupId = conversation])

\* maybeAddSenderKeyDistributionMessage from the conversation that
\* getRetryConversation has resolved to its await of the sender key
\* distribution message, or to its return or throw
maybeAddSenderKeyDistributionMessage(req, loc) ==
  LET conversation == loc.conversation IN
  IF conversation = NoConversation
    THEN Suspended("maybeAddSenderKeyDistributionMessage", loc)
  ELSE IF ~hasMember(conversation, req.requesterUuid)
    THEN Rejected("maybeAddSenderKeyDistributionMessage",
                  [loc EXCEPT !.outcome = "notMember"])
  ELSE IF ~isGroupV2(conversation)
    THEN Suspended("maybeAddSenderKeyDistributionMessage", loc)
  ELSE IF GroupDistributionId(conversation) # NoDistribution
    THEN Suspended("getSenderKeyDistributionMessage", loc)
  ELSE Suspended("maybeAddSenderKeyDistributionMessage",
                 [loc EXCEPT !.groupId = conversation])

\* getRetryConversation resumes with the message of the one id the record
\* names, or with none, and returns the conversation
messageLoaded(req, loc) ==
  LET messageId == loc.sentProto.messageIds[1] IN
  Suspended("getRetryConversation",
            [loc EXCEPT !.conversation =
               IF messageId \notin MessageIds THEN ConversationGet(req.groupId)
               ELSE ConversationGet(MessageConversation(messageId))])

\* getRetryConversation({messageIds, requestGroupId}) up to its await, or to
\* its return without one
getRetryConversation(req, loc) ==
  IF Len(loc.sentProto.messageIds) # 1
    THEN Suspended("getRetryConversation",
                   [loc EXCEPT !.conversation = ConversationGet(req.groupId)])
  ELSE Suspended("getMessageById", loc)

\* onRetryRequest resumes with the record getSentProtoByRecipient found, or
\* with none
sentProtoLoaded(sentProto, req, loc) ==
  IF ~sentProto.found
    THEN sendDistributionMessageOrNullMessage(req,
           [loc EXCEPT !.outcome = "noProto"])
  ELSE getRetryConversation(req,
         [loc EXCEPT !.sentProto = sentProto,
                     !.contentProto = [story |-> sentProto.story,
                                       skdm |-> NoDistribution]])

\* onRetryRequest from the result of archiveSessionOnMatch (loc.didArchive)
\* to its next await
sessionChecked(req, loc) ==
  IF TooOld(req, loc.configured)
    THEN sendDistributionMessageOrNullMessage(req,
           [loc EXCEPT !.outcome = "tooOld"])
  ELSE Suspended("getSentProtoByRecipient", loc)

\* session && session.currentRatchetKeyMatches(ratchetKey)
currentRatchetKeyMatches(session, ratchetKey) ==
  session # NoKey /\ session = ratchetKey

\* faulty archiveSessionOnMatch: the sender device of the request is not
\* compared with our own
archiveSessionOnMatchAnyDevice(req, loc) ==
  IF req.ratchetKey = NoKey THEN Suspended("archiveSessionOnMatch", loc)
  ELSE Suspended("loadSession", loc)

\* archiveSessionOnMatch(options) up to its await of loadSession; for a
\* request of another device or without a ratchet key it returns false at
\* once, and onRetryRequest awaits that result
archiveSessionOnMatch(req, loc) ==
  IF OurDeviceId # req.senderDevice \/ req.ratchetKey = NoKey
    THEN Suspended("archiveSessionOnMatch", loc)
  ELSE Suspended("loadSession", loc)

\* archiveSessionOnMatch resumes with the session loadSession found: it goes
\* on to archive it, or returns false
sessionLoaded(session, req, loc) ==
  IF currentRatchetKeyMatches(session, req.ratchetKey)
    THEN Suspended("archiveSession", loc)
  ELSE Suspended("archiveSessionOnMatch", loc)

\* archiveSessionOnMatch resumes after archiveSession and returns true
sessionArchived(req, loc) ==
  Suspended("archiveSessionOnMatch", [loc EXCEPT !.didArchive = TRUE])

\* onRetryRequest(event) from its first line to its first await; `record` is
\* the ledger it finds
onRetryRequest(req, loc, record) ==
  LET retryCount == record[req.sentAt] + 1
      counted == [loc EXCEPT !.retryCount = Kept(loc, retryCount)]
  IN
  IF FlagDisabled(loc.flagOn)
    THEN Confirmed([loc EXCEPT !.outcome = "flagDisabled"])
  ELSE IF ExceedsRetryLimit(retryCount)
    THEN Confirmed([counted EXCEPT !.outcome = "rateLimited"])
  ELSE IF loc.delay THEN Suspended("retryDelay", counted)
  ELSE archiveSessionOnMatch(req, counted)

(* onDecryptionError *)

\* faulty requestResend: no automatic reset when the cipher text is missing
requestResendNoFailOver(err, loc) ==
  IF ~err.cipherOk
    THEN Suspended("requestResend", [loc EXCEPT !.outcome = "resetFallback"])
  ELSE Suspended("addResendRequest", loc)

\* requestResend(decryptionError) up to its await of the add; without the
\* cipher text it fails over to the automatic reset and returns
requestResend(err, loc) ==
  IF ~err.cipherOk
    THEN Suspended("requestResend",
                   WithReset(err, [loc EXCEPT !.outcome = "resetFallback"]))
  ELSE Suspended("addResendRequest", loc)

\* faulty profilesLoaded: the feature flag is not looked at
profilesLoadedIgnoresFlag(capable, err, loc) ==
  IF capable THEN requestResend(err, [loc EXCEPT !.capable = capable])
  ELSE Suspended("startAutomaticSessionReset",
                 WithReset(err, [loc EXCEPT !.capable = capable,
                                            !.outcome = "reset"]))

\* onDecryptionError from the second look at the capability of the sender
\* (capable) to its next await: inside requestResend, or of the result of
\* startAutomaticSessionReset, which has scheduled the reset
profilesLoaded(capable, err, loc) ==
  IF capable /\ loc.flagOn
    THEN requestResend(err, [loc EXCEPT !.capable = capable])
  ELSE Suspended("startAutomaticSessionReset",
                 WithReset(err, [loc EXCEPT !.capable = capable,
                                            !.outcome = "reset"]))

\* the handler resumes from the await of its own async function at `pc`: an
\* error that function threw leaves the handler; after the fallback, the
\* resend request or the reset the handler calls confirm() and returns
afterCall(pc, req, loc) ==
  IF loc.threw THEN Returned(loc)
  ELSE IF pc = "archiveSessionOnMatch" THEN sessionChecked(req, loc)
  ELSE IF pc = "getRetryConversation"
    THEN maybeAddSenderKeyDistributionMessage(req, loc)
  ELSE IF pc = "maybeAddSenderKeyDistributionMessage"
    THEN afterSenderKey(req, loc)
  ELSE IF pc = "checkDistributionListAndAddSKDM" THEN storyChecked(req, loc)
  ELSE Confirmed(loc)

\* onDecryptionError(event) from its first line to its first await: the
\* profile of the sender is fetched when its capability is not known
onDecryptionError(err, loc, record) ==
  LET retryCount == record[err.timestamp] + 1
      counted == [loc EXCEPT !.retryCount = Kept(loc, retryCount)]
  IN
  IF ExceedsRetryLimit(retryCount)
    THEN Confirmed([counted EXCEPT !.outcome = "rateLimited"])
  ELSE IF loc.cached THEN profilesLoaded(TRUE, err, counted)
  ELSE Suspended("getProfiles", counted)

----------------------------------------------------------------------------
(* The state after construction *)

InitRecovery ==
  /\ retryRecord = [t \in Timestamps |-> 0]
  /\ sessions = [a \in Addresses |-> "k1"]
  /\ jobs = << >>
  /\ resetQueue = << >>
  /\ timeline = [c \in Requesters |-> 0]
  /\ last = NoEvent

InitConc ==
  /\ hpc = [h \in Handlers |-> "idle"]
  /\ hreq = [h \in Handlers |-> IdleRequest]
  /\ hloc = [h \in Handlers |-> NoLocals]
  /\ hist = [passed |-> [t \in Timestamps |-> 0],
             seen |-> [k \in EventKinds |-> [t \in Timestamps |-> 0]],
             passedBy |-> [k \in EventKinds |-> [t \in Timestamps |-> 0]],
             added |-> [t \in Timestamps |-> 0]]

\* sendNormalMessage: the recipients a message can have. Me is our own
\* conversation; SendStateOrder is the key order of sendStateByConversationId
Me == "me"
Contacts == {"a", "b"}
RecipientIds == {Me} \cup Contacts
SendStateOrder == << "me", "a", "b" >>
Absent == "Absent"       \* the id is no key of sendStateByConversationId
NoSave == [pending |-> FALSE]
NoAttempt == [ran |-> FALSE]
NoRun == [pc |-> "idle"]

\* no message has been enqueued for sending yet
InitSend ==
  /\ sendState = [id \in RecipientIds |-> Absent]
  /\ msgErrors = << >>
  /\ saved = [sendState |-> [id \in RecipientIds |-> Absent], errors |-> << >>]
  /\ savePending = NoSave
  /\ msgStatus = "missing"
  /\ conv = "me"
  /\ jobState = "none"
  /\ verificationPending = FALSE
  /\ lastSend = NoAttempt
  /\ attempt = NoRun

\* the job queue has started no job yet, and no group send was issued
InitQueue ==
  /\ inFlight = << >>
  /\ groupSends = << >>

\* the sent-proto store holds what was sent before the events arrive
InitProtos ==
  sentProtos = [k \in Requesters \X Timestamps |-> SentProtoTable(k[1], k[2])]

\* SpecTree, SpecSort: no range was inserted or sorted yet
NoRange == [start |-> 0, length |-> 0, id |-> 0]
NoInsert == [n |-> 0, range |-> NoRange, into |-> << >>, threw |-> FALSE, rendering |-> FALSE, links |-> << >>]
NoSort == [ran |-> FALSE, input |-> << >>, output |-> << >>]

\* no message text was rendered and nothing was sorted yet
InitRanges ==
  /\ tree = << >>
  /\ ins = NoInsert
  /\ sorting = NoSort

Init ==
  /\ InitRecovery /\ InitConc /\ InitSend /\ InitQueue /\ InitProtos
  /\ InitRanges

----------------------------------------------------------------------------
(* The steps of the recovery handlers. Each action is one stretch of one    *)
(* handler: an awaited call completes and the handler runs on to its next   *)
(* await, or to its return or throw. Between two stretches of a handler the *)
(* other handlers, the queues and the session store take their steps.       *)

\* handler h, at work on the event req, has run the stretch with the result
\* r: it is suspended at r.pc, or it is done and its result is noted in last
\* (a tracked call is counted in hist instead).
\* The resets it started in the stretch are scheduled, each with its
\* session-refreshed event
Resume(h, req, r) ==
  LET done == r.pc = "done"
      newResets == SubSeq(r.loc.resets, Len(hloc[h].resets) + 1,
                          Len(r.loc.resets))
  IN
  /\ hpc' = [hpc EXCEPT ![h] = IF done THEN "idle" ELSE r.pc]
  /\ hreq' = [hreq EXCEPT ![h] = IF done THEN IdleRequest ELSE req]
  /\ hloc' = [hloc EXCEPT ![h] = IF done THEN NoLocals ELSE r.loc]
  /\ last' = IF done /\ ~r.loc.tracked THEN Handled(req, r.loc) ELSE last
  /\ resetQueue' = resetQueue \o newResets
  /\ timeline' = IF newResets = << >> THEN timeline
                 ELSE [timeline EXCEPT ![req.senderUuid] = @ + Len(newResets)]

\* an event of the kind `kind` with the timestamp t was handed to its handler;
\* reached: it got to the rate check; passes: it got past it
Deliver(kind, t, reached, passes) ==
  LET r == IF reached THEN 1 ELSE 0
      p == IF passes THEN 1 ELSE 0
  IN
  hist' = [passed |-> [hist.passed EXCEPT ![t] = @ + p],
           seen |-> [hist.seen EXCEPT ![kind][t] = @ + r],
           passedBy |-> [hist.passedBy EXCEPT ![kind][t] = @ + p],
           added |-> hist.added]

\* onRetryRequest is called on the request i.req and runs to its first await
StartRetryRequest(h, i, tracked) ==
  LET req == i.req
      loc == [NoLocals EXCEPT !.kind = "retry", !.flagOn = i.flagOn,
                              !.configured = i.configured,
                              !.delay = i.delay, !.tracked = tracked]
      r == onRetryRequest(req, loc, retryRecord)
  IN
  /\ hpc[h] = "idle"
  /\ retryRecord' = IF FlagDisabled(i.flagOn) THEN retryRecord
                    ELSE BumpRetryRecord(retryRecord, req.sentAt)
  /\ Resume(h, req, r)
  /\ IF tracked
       THEN Deliver("retry", req.sentAt, ~FlagDisabled(i.flagOn),
                    r.loc.outcome \notin {"flagDisabled", "rateLimited"})
       ELSE UNCHANGED hist
  /\ UNCHANGED << sessions, jobs, sendVars, queueVars, protoVars, rangeVars >>

\* onDecryptionError is called on the error i.err and runs to its first await
StartDecryptionError(h, i, tracked) ==
  LET err == i.err
      loc == [NoLocals EXCEPT !.kind = "decrypt", !.flagOn = i.flagOn,
                              !.cached = i.cached, !.tracked = tracked]
      r == onDecryptionError(err, loc, retryRecord)
  IN
  /\ hpc[h] = "idle"
  /\ retryRecord' = BumpRetryRecord(retryRecord, err.timestamp)
  /\ Resume(h, err, r)
  /\ IF tracked
       THEN Deliver("decrypt", err.timestamp, TRUE,
                    r.loc.outcome # "rateLimited")
       ELSE UNCHANGED hist
  /\ UNCHANGED << sessions, jobs, sendVars, queueVars, protoVars, rangeVars >>

\* the timer of the delay that window.RETRY_DELAY asks for has run out
RetryDelay(h) ==
  /\ hpc[h] = "retryDelay"
  /\ Resume(h, hreq[h], archiveSessionOnMatch(hreq[h], hloc[h]))
  /\ UNCHANGED << retryRecord, sessions, jobs, hist, sendVars, queueVars,
                  protoVars, rangeVars >>

\* loadSession(address) resolves with the session the store has now
LoadSession(h) ==
  LET req == hreq[h]
      address == << req.requesterUuid, req.requesterDevice >>
  IN
  /\ hpc[h] = "loadSession"
  /\ Resume(h, req, sessionLoaded(sessions[address], req, hloc[h]))
  /\ UNCHANGED << retryRecord, sessions, jobs, hist, sendVars, queueVars,
                  protoVars, rangeVars >>

\* archiveSession(address) archives whatever session the address has now
ArchiveSession(h) ==
  LET req == hreq[h]
      address == << req.requesterUuid, req.requesterDevice >>
  IN
  /\ hpc[h] = "archiveSession"
  /\ sessions' = [sessions EXCEPT ![address] = NoKey]
  /\ Resume(h, req, sessionArchived(req, hloc[h]))
  /\ UNCHANGED << retryRecord, jobs, hist, sendVars, queueVars, protoVars,
                  rangeVars >>

\* getSentProtoByRecipient resolves with the record the store has now
GetSentProtoByRecipient(h) ==
  LET req == hreq[h] IN
  /\ hpc[h] = "getSentProtoByRecipient"
  /\ Resume(h, req,
            sentProtoLoaded(getSentProtoByRecipient(req.requesterUuid, req.sentAt),
                            req, hloc[h]))
  /\ sentProtos' = SentProtosAfterGet(Now)
  /\ UNCHANGED << retryRecord, sessions, jobs, hist, sendVars, queueVars,
                  rangeVars >>

\* getMessageById of getRetryConversation resolves
GetMessageById(h) ==
  /\ hpc[h] = "getMessageById"
  /\ Resume(h, hreq[h], messageLoaded(hreq[h], hloc[h]))
  /\ UNCHANGED << retryRecord, sessions, jobs, hist, sendVars, queueVars,
                  protoVars, rangeVars >>

\* getSenderKeyDistributionMessage of maybeAddSenderKeyDistributionMessage
\* resolves or rejects
GetSenderKeyDistributionMessage(h) ==
  /\ hpc[h] = "getSenderKeyDistributionMessage"
  /\ Resume(h, hreq[h], senderKeyLoaded(hreq[h], hloc[h]))
  /\ UNCHANGED << retryRecord, sessions, jobs, hist, sendVars, queueVars,
                  protoVars, rangeVars >>

\* getMessagesBySentAt of checkDistributionListAndAddSKDM resolves
GetMessagesBySentAt(h) ==
  /\ hpc[h] = "getMessagesBySentAt"
  /\ Resume(h, hreq[h], checkDistributionListAndAddSKDM(hreq[h], hloc[h]))
  /\ UNCHANGED << retryRecord, sessions, jobs, hist, sendVars, queueVars,
                  protoVars, rangeVars >>

\* getStoryDistributionWithMembers resolves
GetStoryDistributionWithMembers(h) ==
  /\ hpc[h] = "getStoryDistributionWithMembers"
  /\ Resume(h, hreq[h], storyDistributionLoaded(hreq[h], hloc[h]))
  /\ UNCHANGED << retryRecord, sessions, jobs, hist, sendVars, queueVars,
                  protoVars, rangeVars >>

\* getSenderKeyDistributionMessage of checkDistributionListAndAddSKDM
\* resolves or rejects
GetStorySenderKey(h) ==
  /\ hpc[h] = "getStorySenderKey"
  /\ Resume(h, hreq[h], storySenderKeyLoaded(hreq[h], hloc[h]))
  /\ UNCHANGED << retryRecord, sessions, jobs, hist, sendVars, queueVars,
                  protoVars, rangeVars >>

\* conversation.getProfiles() resolves; the sender has the capability or not
GetProfiles(h) ==
  /\ hpc[h] = "getProfiles"
  /\ \E capable \in BOOLEAN :
       Resume(h, hreq[h], profilesLoaded(capable, hreq[h], hloc[h]))
  /\ UNCHANGED << retryRecord, sessions, jobs, hist, sendVars, queueVars,
                  protoVars, rangeVars >>

\* conversationJobQueue.add stores the job it was handed, or throws and the
\* handler resumes in its catch block or is left by the error. bound: the
\* jobs the queue holds at most
AddJob(h, bound) ==
  /\ hpc[h] \in AddPoints
  /\ ~hloc[h].stored
  /\ \E ok \in BOOLEAN :
       LET req == hreq[h]
           job == PendingJob(hpc[h], req, hloc[h])
           tried == [hloc[h] EXCEPT !.addOk = Append(@, ok)]
           t == IF hloc[h].kind = "retry" THEN req.sentAt ELSE req.timestamp
       IN
       IF ok
         THEN /\ Len(jobs) < bound
              /\ jobs' = Append(jobs, job)
              /\ hloc' = [hloc EXCEPT ![h] =
                            [tried EXCEPT !.stored = TRUE,
                                          !.jobs = Append(@, job)]]
              /\ hist' = IF hloc[h].tracked
                           THEN [hist EXCEPT !.added[t] = @ + 1]
                           ELSE hist
              /\ UNCHANGED << hpc, hreq, last, resetQueue, timeline >>
         ELSE /\ Resume(h, req, afterAdd(hpc[h], FALSE, req, tried))
              /\ UNCHANGED << jobs, hist >>
  /\ UNCHANGED << retryRecord, sessions, sendVars, queueVars, protoVars,
                  rangeVars >>

\* the handler resumes from the await of one of its own async functions,
\* which has returned or thrown
CallReturns(h) ==
  /\ hpc[h] \in CallPoints
  /\ Resume(h, hreq[h], afterCall(hpc[h], hreq[h], hloc[h]))
  /\ UNCHANGED << retryRecord, sessions, jobs, hist, sendVars, queueVars,
                  protoVars, rangeVars >>

\* the handler resumes after the add that stored its job
AddReturns(h) ==
  /\ hpc[h] \in AddPoints
  /\ hloc[h].stored
  /\ Resume(h, hreq[h],
            afterAdd(hpc[h], TRUE, hreq[h], [hloc[h] EXCEPT !.stored = FALSE]))
  /\ UNCHANGED << retryRecord, sessions, jobs, hist, sendVars, queueVars,
                  protoVars, rangeVars >>

\* the conversation job queue runs its oldest job
RunJob ==
  /\ jobs # << >>
  /\ jobs' = Tail(jobs)
  /\ UNCHANGED << retryRecord, sessions, resetQueue, timeline, last, concVars,
                  sendVars, queueVars, protoVars, rangeVars >>

\* the light session reset queue runs: lightSessionReset archives the session
RunSessionReset ==
  /\ resetQueue # << >>
  /\ sessions' = [sessions EXCEPT ![Head(resetQueue)] = NoKey]
  /\ resetQueue' = Tail(resetQueue)
  /\ UNCHANGED << retryRecord, jobs, timeline, last, concVars, sendVars,
                  queueVars, protoVars, rangeVars >>

\* a queued addChatSessionRefreshed job runs on its conversation
AddChatSessionRefreshed ==
  \E c \in Requesters :
    /\ timeline[c] > 0
    /\ timeline' = [timeline EXCEPT ![c] = @ - 1]
    /\ UNCHANGED << retryRecord, sessions, jobs, resetQueue, last, concVars,
                    sendVars, queueVars, protoVars, rangeVars >>

\* a new session is established with a peer that has none
NewSession ==
  \E a \in Addresses, k \in RatchetKeys :
    /\ sessions[a] = NoKey
    /\ sessions' = [sessions EXCEPT ![a] = k]
    /\ UNCHANGED << retryRecord, jobs, resetQueue, timeline, last, concVars,
                    sendVars, queueVars, protoVars, rangeVars >>

\* startAutomaticSessionReset is exported: another module calls it for the
\* address a. The reset is scheduled; found: lookupOrCreate has a
\* conversation for the uuid, and the session-refreshed event is queued on it
StartAutomaticSessionReset(a, found) ==
  /\ resetQueue' = Append(resetQueue, a)
  /\ timeline' = IF found THEN [timeline EXCEPT ![a[1]] = @ + 1] ELSE timeline
  /\ UNCHANGED << retryRecord, sessions, jobs, last, concVars, sendVars,
                  queueVars, protoVars, rangeVars >>

\* the receiver has taken note of the handler that finished last
NextEvent ==
  /\ last # NoEvent
  /\ last' = NoEvent
  /\ UNCHANGED << retryRecord, sessions, jobs, resetQueue, timeline, concVars,
                  sendVars, queueVars, protoVars, rangeVars >>

----------------------------------------------------------------------------
(* Spec: the receiver hands retry requests and decryption errors of every   *)
(* shape to the handlers, the first event of a timestamp in any shape and   *)
(* later ones in a plain shape. The handlers never read the queues they add *)
(* to, so the queues are let run empty before an event is handed over. An   *)
(* event of r1 for the newer timestamp is also handed over while the        *)
(* handler of another such event is suspended; a handler delayed by         *)
(* window.RETRY_DELAY runs alone. Between the events another module may     *)
(* call the exported startAutomaticSessionReset, while no handler is at     *)
(* work.                                                                    *)

\* the result of the latest handler was noted and the queues have run empty
Drained ==
  /\ last = NoEvent
  /\ jobs = << >>
  /\ resetQueue = << >>
  /\ \A c \in Requesters : timeline[c] = 0

\* what a retry request can meet: any request under the default
\* configuration; the flag switched off or another maximum age with a
\* request of our own device; the delay with a request of r1 and our own
\* device for the newer timestamp
RetryInputs ==
  [req : RetryRequests, flagOn : {TRUE}, configured : {0}, delay : {FALSE}]
  \cup
  [req : [groupId : RequestGroups, requesterUuid : Requesters,
          requesterDevice : RequesterDevices, senderDevice : {OurDeviceId},
          sentAt : Timestamps, ratchetKey : {"k1"}],
   flagOn : BOOLEAN, configured : ConfiguredMaxAges, delay : {FALSE}]
  \cup
  [req : [groupId : {NoGroup}, requesterUuid : {"r1"},
          requesterDevice : RequesterDevices, senderDevice : {OurDeviceId},
          sentAt : {TNew}, ratchetKey : {"k1"}],
   flagOn : {TRUE}, configured : {0}, delay : {TRUE}]

\* what a decryption error can meet; cached: the conversation of the sender
\* has the sender key capability before any profile is fetched
DecryptionInputs ==
  [err : DecryptionErrors, flagOn : BOOLEAN, cached : BOOLEAN]

\* the plain events: those of r1, without a group, for our own device
PlainRetryInput(i) ==
  /\ i.req.requesterUuid = "r1" /\ i.req.groupId = NoGroup
  /\ i.req.senderDevice = OurDeviceId /\ i.req.ratchetKey = "k1"

PlainDecryptionInput(i) ==
  /\ i.err.senderUuid = "r1" /\ i.err.groupId = NoGroup
  /\ i.err.cipherOk /\ i.err.contentHint = "RESENDABLE"

\* the events handed over while another handler is suspended: the plain
\* requests and errors for the newer timestamp
ConcRetryRequests ==
  [groupId : {NoGroup}, requesterUuid : {"r1"},
   requesterDevice : RequesterDevices, senderDevice : {OurDeviceId},
   sentAt : {TNew}, ratchetKey : {"k1"}]

ConcDecryptionErrors ==
  [senderUuid : {"r1"}, senderDevice : RequesterDevices, timestamp : {TNew},
   cipherOk : {TRUE}, contentHint : {"RESENDABLE"}, groupId : {NoGroup}]

Overlapping(kind, req, flagOn) ==
  IF kind = "retry" THEN req \in ConcRetryRequests /\ flagOn
  ELSE req \in ConcDecryptionErrors

Idle == \A g \in Handlers : hpc[g] = "idle"

\* the event goes to the first handler that is free
FirstIdle(h) ==
  /\ hpc[h] = "idle"
  /\ \A g \in Handlers : g < h => hpc[g] # "idle"

\* the event may be handed over while the handlers at work are suspended
MayOverlap(kind, req, flagOn) ==
  /\ retryRecord[TOld] = 0
  /\ Overlapping(kind, req, flagOn)
  /\ \A g \in Handlers :
       hpc[g] # "idle" =>
         /\ Overlapping(hloc[g].kind, hreq[g], hloc[g].flagOn)
         /\ ~hloc[g].delay

RetryRequest(h) ==
  /\ Drained
  /\ FirstIdle(h)
  /\ \E i \in RetryInputs :
       /\ i.flagOn => retryRecord[i.req.sentAt] < MaxSeen
       /\ IF Idle THEN PlainRetryInput(i) \/ retryRecord[i.req.sentAt] = 0
          ELSE /\ MayOverlap("retry", i.req, i.flagOn)
               /\ i.configured # 16 * DAY
               /\ ~i.delay
       /\ StartRetryRequest(h, i, FALSE)

DecryptionError(h) ==
  /\ Drained
  /\ FirstIdle(h)
  /\ \E i \in DecryptionInputs :
       /\ retryRecord[i.err.timestamp] < MaxSeen
       /\ IF Idle
            THEN PlainDecryptionInput(i) \/ retryRecord[i.err.timestamp] = 0
            ELSE MayOverlap("decrypt", i.err, i.flagOn)
       /\ StartDecryptionError(h, i, FALSE)

\* a call of startAutomaticSessionReset from outside the handlers
DirectSessionReset ==
  /\ Drained
  /\ Idle
  /\ \E a \in Addresses, found \in BOOLEAN : StartAutomaticSessionReset(a, found)

Next ==
  \/ \E h \in Handlers : RetryRequest(h)
  \/ \E h \in Handlers : DecryptionError(h)
  \/ \E h \in Handlers : RetryDelay(h)
  \/ \E h \in Handlers : LoadSession(h)
  \/ \E h \in Handlers : ArchiveSession(h)
  \/ \E h \in Handlers : GetSentProtoByRecipient(h)
  \/ \E h \in Handlers : GetMessageById(h)
  \/ \E h \in Handlers : GetSenderKeyDistributionMessage(h)
  \/ \E h \in Handlers : GetMessagesBySentAt(h)
  \/ \E h \in Handlers : GetStoryDistributionWithMembers(h)
  \/ \E h \in Handlers : GetStorySenderKey(h)
  \/ \E h \in Handlers : GetProfiles(h)
  \/ \E h \in Handlers : AddJob(h, MaxQueued)
  \/ \E h \in Handlers : CallReturns(h)
  \/ \E h \in Handlers : AddReturns(h)
  \/ DirectSessionReset
  \/ RunJob
  \/ RunSessionReset
  \/ AddChatSessionRefreshed
  \/ NewSession
  \/ NextEvent

Spec == Init /\ [][Next]_vars

----------------------------------------------------------------------------
(* Properties of the recovery handlers, under Spec *)

\* the elements of a sequence
Range(seq) == { seq[i] : i \in DOMAIN seq }

JobTypes(js) == { js[i].type : i \in DOMAIN js }

\* handler h takes the step
Moved(h) == hpc'[h] # hpc[h] \/ hloc'[h] # hloc[h]

\* the step calls handler h, which is suspended at its end
Starts(h) == hpc[h] = "idle" /\ hpc'[h] # "idle"

\* the step calls a handler that returns or throws before any await
RunsThrough ==
  /\ \A h \in Handlers : ~Moved(h)
  /\ last' # last
  /\ last' # NoEvent

\* a handler returns or throws in the step; last' is what it did
Finishes == last' # last /\ last' # NoEvent

\* the resets handler h has started by the end of the step, and those it
\* started in the step
ResetsAfter(h) == IF hpc'[h] = "idle" THEN last'.resets ELSE hloc'[h].resets

NewResets(h) ==
  SubSeq(ResetsAfter(h), Len(hloc[h].resets) + 1, Len(ResetsAfter(h)))

\* the timestamp of the event handler h has after the step
EventTime(h) ==
  IF hloc'[h].kind = "retry" THEN hreq'[h].sentAt ELSE hreq'[h].timestamp

\* the result of the k-th conversationJobQueue.add of the handler that
\* finished last: the job was stored
AddOk(k) == k <= Len(last.addOk) /\ last.addOk[k]

\* C1: an event that finds its timestamp already seen RETRY_LIMIT times is
\* acknowledged in the stretch it is handed over in and changes nothing but
\* the ledger: no job is added, no session archived, no reset scheduled and
\* no handler left suspended; an event that finds it seen fewer times gets
\* past the rate check: its handler is suspended at an await.
C1_RateLimitNoOp ==
  [][ \A t \in Timestamps :
        retryRecord'[t] # retryRecord[t] =>
          IF retryRecord[t] >= RETRY_LIMIT
            THEN /\ jobs' = jobs
                 /\ sessions' = sessions
                 /\ resetQueue' = resetQueue
                 /\ timeline' = timeline
                 /\ hpc' = hpc
                 /\ last'.timestamp = t
                 /\ last'.outcome = "rateLimited"
                 /\ last'.confirms = 1
                 /\ last'.jobs = << >>
                 /\ last'.resets = << >>
                 /\ ~last'.didArchive
            ELSE \E h \in Handlers :
                   /\ Starts(h)
                   /\ EventTime(h) = t
                   /\ hloc'[h].retryCount = retryRecord[t] + 1
                   /\ hloc'[h].confirms = 0 ]_vars

\* the seventh decryption error of a timestamp was dropped and acknowledged
C1_Witness ==
  /\ last.kind = "decrypt"
  /\ last.retryCount = RETRY_LIMIT + 2
  /\ retryRecord[last.timestamp] = RETRY_LIMIT + 2
  /\ last.outcome = "rateLimited"
  /\ last.confirms = 1

\* the retry request handled last got past the flag and the rate check
PassedRateCheck ==
  /\ last.kind = "retry"
  /\ last.flagOn
  /\ last.retryCount <= RETRY_LIMIT

\* the retry request handled last passed the flag and the rate check and its
\* timestamp is older than the window
HandledTooOld ==
  /\ PassedRateCheck
  /\ isOlderThan(last.timestamp, retryRespondMaxAge(last.configured))

\* C6 as stated: a too-old retry request adds no SavedProto job, runs only
\* the fallback, and is then acknowledged.
C6_Original ==
  HandledTooOld =>
    /\ "SavedProto" \notin JobTypes(last.jobs)
    /\ last.confirms = 1

\* C6 as amended: a too-old retry request adds no SavedProto job and runs only
\* the fallback (at most one SenderKeyDistribution or NullMessage job); it is
\* acknowledged exactly when the fallback returns, and not when the fallback
\* raises because the requester is not a member of the group it names.
C6_AgeCutoff ==
  HandledTooOld =>
    /\ last.outcome = "tooOld"
    /\ JobTypes(last.jobs) \subseteq {"SenderKeyDistribution", "NullMessage"}
    /\ Len(last.jobs) <= 1
    /\ last.threw <=> (last.groupId \in Groups
                        /\ ~hasMember(last.groupId, last.uuid))
    /\ last.confirms = (IF last.threw THEN 0 ELSE 1)
    /\ last.threw => last.jobs = << >>

\* a too-old request for which a sent proto exists ran the fallback only
C6_Witness ==
  /\ HandledTooOld
  /\ getSentProtoByRecipient(last.uuid, last.timestamp).found
  /\ JobTypes(last.jobs) = {"SenderKeyDistribution"}
  /\ last.confirms = 1

\* C7: every SavedProto job added for a retry request carries the timestamp
\* of the request and of the stored record, the record's contentHint and
\* urgent flag, and the requester's conversation.
C7_ResendKeepsRecord ==
  last.kind = "retry" =>
    \A i \in DOMAIN last.jobs :
      last.jobs[i].type = "SavedProto" =>
        LET record == getSentProtoByRecipient(last.uuid, last.timestamp) IN
        /\ record.found
        /\ last.jobs[i].timestamp = last.timestamp
        /\ last.jobs[i].timestamp = record.timestamp
        /\ last.jobs[i].contentHint = record.contentHint
        /\ last.jobs[i].urgent = record.urgent
        /\ last.jobs[i].conversationId = last.uuid

\* a story was resent to r2 and a group message to r1, each with its own fields
C7_Witness ==
  /\ last.kind = "retry"
  /\ last.outcome = "resent"
  /\ last.uuid = "r2"
  /\ jobs = last.jobs
  /\ Len(jobs) = 1
  /\ jobs[1].timestamp = TNew
  /\ jobs[1].contentHint = "IMPLICIT"
  /\ ~jobs[1].urgent

\* the retry request handled last ran sendDistributionMessageOrNullMessage:
\* it was too old, or no sent proto was found for it
FallbackRan ==
  /\ last.kind = "retry"
  /\ last.outcome \in {"tooOld", "noProto"}

\* the request names a group we know that has a sender key distribution id
GroupHasDistributionId ==
  /\ last.groupId \in Groups
  /\ GroupDistributionId(last.groupId) # NoDistribution

\* C14 as stated: the fallback adds at most one job and never a SavedProto
\* job; for a group with a distribution id nothing but a SenderKeyDistribution
\* job, otherwise after an archived session nothing but a NullMessage job,
\* otherwise nothing
C14_Original ==
  FallbackRan =>
    /\ Len(last.jobs) <= 1
    /\ "SavedProto" \notin JobTypes(last.jobs)
    /\ IF GroupHasDistributionId
         THEN JobTypes(last.jobs) \subseteq {"SenderKeyDistribution"}
         ELSE IF last.didArchive
           THEN JobTypes(last.jobs) \subseteq {"NullMessage"}
           ELSE last.jobs = << >>

\* C14: the fallback adds at most one job, a SenderKeyDistribution or a
\* NullMessage job for the requester's conversation. It raises, adding
\* nothing, exactly when the request names a known group the requester is
\* not a member of. Otherwise a SenderKeyDistribution job is added exactly
\* when the group has a distribution id and the add succeeds, and a
\* NullMessage job exactly when no SenderKeyDistribution job was added
\* (no such group, or its add failed), a session was archived and the add of
\* the NullMessage job succeeds
C14_FallbackJobs ==
  FallbackRan =>
    LET tryDistribution == ~last.threw /\ GroupHasDistributionId
        distributionAdded == tryDistribution /\ AddOk(1)
        tryNull == ~last.threw /\ ~distributionAdded /\ last.didArchive
        nullAdded == tryNull /\ AddOk(Len(last.addOk))
    IN
    /\ Len(last.jobs) <= 1
    /\ JobTypes(last.jobs) \subseteq {"SenderKeyDistribution", "NullMessage"}
    /\ last.threw <=> (last.groupId \in Groups
                        /\ ~hasMember(last.groupId, last.uuid))
    /\ Len(last.addOk) = (IF tryDistribution THEN 1 ELSE 0)
                           + (IF tryNull THEN 1 ELSE 0)
    /\ "SenderKeyDistribution" \in JobTypes(last.jobs) <=> distributionAdded
    /\ "NullMessage" \in JobTypes(last.jobs) <=> nullAdded
    /\ \A i \in DOMAIN last.jobs :
         /\ last.jobs[i].conversationId = last.uuid
         /\ last.jobs[i].type = "SenderKeyDistribution" =>
              last.jobs[i].groupId = last.groupId

\* a request too old to be answered that names g2, a group without
\* distribution id: the session was archived and one NullMessage job was added
C14_Witness ==
  /\ FallbackRan
  /\ last.outcome = "tooOld"
  /\ last.groupId = "g2"
  /\ last.uuid = "r1"
  /\ last.didArchive
  /\ sessions[<< "r1", 1 >>] = NoKey
  /\ Len(last.jobs) = 1
  /\ last.jobs[1].type = "NullMessage"
  /\ jobs = last.jobs

\* didArchive of handler h after the step, in its locals or, when it is
\* through, in its result
DidArchiveAfter(h) ==
  IF hpc'[h] = "idle" THEN last'.didArchive ELSE hloc'[h].didArchive

\* C15: archiveSessionOnMatch goes to the session store only for a request
\* that got past the flag and the rate check, names our device as sender
\* device and carries a ratchet key. It asks for the archive exactly when the
\* session loadSession gives it for (requester, requester device) exists and
\* has that ratchet key; the archive takes the session of that address and no
\* other, and didArchive is true afterwards. In every other case no stretch
\* of the handler changes the session store and didArchive is false
C15_ArchiveOnMatch ==
  [][ /\ \A h \in Handlers :
           Moved(h) =>
             LET address == << hreq[h].requesterUuid, hreq[h].requesterDevice >>
                 match == /\ sessions[address] # NoKey
                          /\ sessions[address] = hreq[h].ratchetKey
             IN
             /\ hpc'[h] = "loadSession" =>
                  /\ hpc[h] \in {"idle", "retryDelay"}
                  /\ hloc'[h].kind = "retry"
                  /\ hloc'[h].flagOn
                  /\ hloc'[h].retryCount <= RETRY_LIMIT
                  /\ hreq'[h].senderDevice = OurDeviceId
                  /\ hreq'[h].ratchetKey # NoKey
             /\ hpc'[h] = "archiveSession" => hpc[h] = "loadSession"
             /\ hpc[h] = "loadSession" =>
                  /\ sessions' = sessions
                  /\ (hpc'[h] = "archiveSession") <=> match
                  /\ ~DidArchiveAfter(h)
             /\ hpc[h] = "archiveSession" =>
                  /\ sessions' = [sessions EXCEPT ![address] = NoKey]
                  /\ DidArchiveAfter(h)
             /\ hpc[h] \notin {"loadSession", "archiveSession"} =>
                  /\ sessions' = sessions
                  /\ DidArchiveAfter(h) = hloc[h].didArchive
      /\ RunsThrough => (sessions' = sessions /\ ~last'.didArchive)
      /\ (Finishes /\ last'.kind = "retry" /\ last'.didArchive) =>
           /\ last'.flagOn /\ last'.retryCount <= RETRY_LIMIT
           /\ last'.senderDevice = OurDeviceId
           /\ last'.ratchetKey # NoKey ]_vars

\* r2 asked our device for a resend with the ratchet key k2 its new session
\* has: that session was archived, the session of r1 was not
C15_Witness ==
  /\ last.kind = "retry"
  /\ last.uuid = "r2"
  /\ last.senderDevice = OurDeviceId
  /\ last.ratchetKey = "k2"
  /\ last.didArchive
  /\ sessions[<< "r2", 1 >>] = NoKey
  /\ sessions[<< "r1", 1 >>] = "k1"

\* getRetryConversation: the conversation of the one message the record
\* names, or else the conversation the request names
RetryConversation(messageIds, requestGroupId) ==
  IF Len(messageIds) # 1 THEN ConversationGet(requestGroupId)
  ELSE IF messageIds[1] \notin MessageIds THEN ConversationGet(requestGroupId)
  ELSE ConversationGet(MessageConversation(messageIds[1]))

\* the conversation the handler checks the requester's membership of: in the
\* fallback the known group the request names, otherwise the conversation
\* resolved for the message that was sent
MembershipConversation ==
  LET sentProto == getSentProtoByRecipient(last.uuid, last.timestamp) IN
  IF isOlderThan(last.timestamp, retryRespondMaxAge(last.configured))
       \/ ~sentProto.found
    THEN (IF last.groupId = NoGroup THEN NoConversation
          ELSE ConversationGet(last.groupId))
    ELSE RetryConversation(sentProto.messageIds, last.groupId)

\* C17: a retry request that gets past the rate check and whose conversation
\* (the one resolved for the original message, or in the fallback the group
\* the request names) is known and does not have the requester as a member
\* raises an error, is not acknowledged, and adds no job
C17_NonMemberRefused ==
  (PassedRateCheck /\ MembershipConversation # NoConversation
     /\ ~hasMember(MembershipConversation, last.uuid)) =>
    /\ last.threw
    /\ last.outcome \in {"notMember", "tooOld", "noProto"}
    /\ last.confirms = 0
    /\ last.jobs = << >>
    /\ last.addOk = << >>

\* r2 asked for a story it was sent, naming g2 where it is not a member; its
\* session was archived, an error was raised and no job was added
C17_Witness ==
  /\ last.kind = "retry"
  /\ last.uuid = "r2"
  /\ last.groupId = "g2"
  /\ last.timestamp = TNew
  /\ last.outcome = "notMember"
  /\ last.didArchive
  /\ last.threw
  /\ last.confirms = 0
  /\ jobs = << >>

\* the retry request handled last got as far as rebuilding the content of a
\* sent proto, and that content is a story message
StoryRequest ==
  /\ PassedRateCheck
  /\ ~isOlderThan(last.timestamp, retryRespondMaxAge(last.configured))
  /\ getSentProtoByRecipient(last.uuid, last.timestamp).found
  /\ getSentProtoByRecipient(last.uuid, last.timestamp).story

\* the requester is a member of a distribution list a story with the
\* request's timestamp was sent to
InStoryList ==
  \E i \in DOMAIN StoryListsSentAt(last.timestamp) :
    LET l == StoryListsSentAt(last.timestamp)[i] IN
    l \in DistributionLists /\ last.uuid \in ListMembers(l)

\* C18: for a retry request whose content is a story message a SavedProto job
\* is added only if the requester is a member of a distribution list the
\* story was sent to; a requester in no such list gets no job
C18_StoryListMembership ==
  StoryRequest =>
    /\ "SavedProto" \in JobTypes(last.jobs) => InStoryList
    /\ ~InStoryList => last.jobs = << >>

\* r1, in no list the story went to, asked for it without naming a group:
\* the request was acknowledged and no job was added
C18_Witness ==
  /\ StoryRequest
  /\ last.uuid = "r1"
  /\ last.groupId = NoGroup
  /\ ~InStoryList
  /\ last.outcome = "storyDropped"
  /\ last.confirms = 1
  /\ ~last.threw
  /\ last.jobs = << >>

\* the decryption error handled last got past the rate check
DecryptPassedRateCheck ==
  /\ last.kind = "decrypt"
  /\ last.retryCount <= RETRY_LIMIT

\* C19: a decryption error that gets past the rate check, from a sender
\* without the sender key capability or with the retry flag off, goes to the
\* automatic session reset and adds no ResendRequest job; a ResendRequest job
\* is added only when the sender has the capability and the flag is on
C19_ResetUnlessCapableAndFlag ==
  DecryptPassedRateCheck =>
    /\ ~(last.capable /\ last.flagOn) =>
         /\ last.outcome = "reset"
         /\ last.resets = << << last.uuid, last.device >> >>
         /\ last.jobs = << >>
         /\ last.addOk = << >>
         /\ last.confirms = 1
    /\ "ResendRequest" \in JobTypes(last.jobs) => (last.capable /\ last.flagOn)

\* a sender with the capability, the flag off: the reset of its session is
\* scheduled, the session-refreshed event is queued, no job was added
C19_Witness ==
  /\ DecryptPassedRateCheck
  /\ last.capable
  /\ ~last.flagOn
  /\ last.cipherOk
  /\ last.outcome = "reset"
  /\ resetQueue = << << last.uuid, 1 >> >>
  /\ timeline[last.uuid] = 1
  /\ jobs = << >>

\* the decryption error handled last is one for the automatic session reset:
\* the sender lacks the capability or the flag is off
DecryptForReset ==
  /\ last.kind = "decrypt"
  /\ ~(last.capable /\ last.flagOn)

\* C20 as stated: every decryption error that is for the automatic session
\* reset schedules the reset and the session-refreshed event, however often
\* its timestamp was seen, and its handler has not counted it in the ledger
C20_Original ==
  DecryptForReset =>
    /\ last.resets = << << last.uuid, last.device >> >>
    /\ last.retryCount = 0

\* the step calls onDecryptionError on an error with the timestamp t
DecryptionStarts(t) ==
  \/ \E h \in Handlers :
       Starts(h) /\ hloc'[h].kind = "decrypt" /\ hreq'[h].timestamp = t
  \/ RunsThrough /\ last'.kind = "decrypt" /\ last'.timestamp = t

\* C20: every decryption error adds one to the ledger count of its timestamp
\* and nothing else to the ledger, in the first stretch of its handler,
\* whichever way it is handled. One that finds its timestamp seen RETRY_LIMIT
\* times is dropped: no reset, no event, no job. Otherwise, if it is for the
\* automatic session reset (capability missing, flag off, cipher text missing
\* or the ResendRequest job not stored), one reset for (sender, device) is
\* scheduled and one session-refreshed event queued, and no job is added; if
\* not, a ResendRequest job is added and no reset is scheduled. A handler
\* schedules the reset and queues the event in one stretch, when it starts
\* the reset, and acknowledges the error in a later stretch
C20_ResetAfterRateCheck ==
  [][ /\ \A t \in Timestamps :
           DecryptionStarts(t) =>
             retryRecord' = [retryRecord EXCEPT ![t] = @ + 1]
      /\ \A h \in Handlers :
           Moved(h) =>
             /\ resetQueue' = resetQueue \o NewResets(h)
             /\ IF NewResets(h) = << >> THEN timeline' = timeline
                ELSE /\ timeline' = [timeline EXCEPT
                                       ![hreq'[h].senderUuid] = @ + 1]
                     /\ NewResets(h) = << << hreq'[h].senderUuid,
                                             hreq'[h].senderDevice >> >>
                     /\ hloc[h].resets = << >>
                     /\ hloc'[h].kind = "decrypt"
                     /\ hloc'[h].confirms = 0
                     /\ hpc'[h] \in {"requestResend",
                                     "startAutomaticSessionReset"}
      /\ (Finishes /\ last'.kind = "decrypt") =>
           LET e == last'
               toReset == \/ ~(e.capable /\ e.flagOn)
                          \/ ~e.cipherOk
                          \/ ~(e.addOk = << TRUE >>)
           IN
           /\ e.retryCount >= 1
           /\ RunsThrough \/ retryRecord' = retryRecord
           /\ resetQueue' = resetQueue
           /\ timeline' = timeline
           /\ IF e.retryCount > RETRY_LIMIT
                THEN e.resets = << >> /\ e.jobs = << >>
                ELSE IF toReset
                  THEN /\ e.resets = << << e.uuid, e.device >> >>
                       /\ e.jobs = << >>
                  ELSE /\ e.resets = << >>
                       /\ Len(e.jobs) = 1
                       /\ e.jobs[1].type = "ResendRequest" ]_vars

\* the fifth decryption error of a timestamp, from a sender without the
\* capability, got its reset; the ledger stands at RETRY_LIMIT
C20_Witness ==
  /\ last.kind = "decrypt"
  /\ ~last.capable
  /\ last.retryCount = RETRY_LIMIT
  /\ retryRecord[last.timestamp] = RETRY_LIMIT
  /\ last.outcome = "reset"
  /\ resetQueue = << << last.uuid, 1 >> >>
  /\ timeline[last.uuid] = 1

\* C37: a retry request handled with the retry flag off is acknowledged once,
\* in the stretch it is handed over in, and changes nothing: the ledger, the
\* session store, the job queue and the reset queue are as before and no
\* handler is left suspended, whatever the request and however often its
\* timestamp was seen
C37_FlagOffNoEffect ==
  [][ (Finishes /\ last'.kind = "retry" /\ ~last'.flagOn) =>
        /\ RunsThrough
        /\ last'.outcome = "flagDisabled"
        /\ last'.confirms = 1
        /\ ~last'.threw
        /\ last'.jobs = << >>
        /\ last'.retryCount = 0
        /\ retryRecord' = retryRecord
        /\ sessions' = sessions
        /\ jobs' = jobs
        /\ resetQueue' = resetQueue
        /\ timeline' = timeline ]_vars

\* a request from our own device whose ratchet key matches the session, with
\* the flag off, after four counted requests of its timestamp: the count is
\* still four and the session is still there
C37_Witness ==
  /\ last.kind = "retry"
  /\ ~last.flagOn
  /\ last.senderDevice = OurDeviceId
  /\ last.ratchetKey = "k1"
  /\ sessions[<< last.uuid, last.device >>] = "k1"
  /\ retryRecord[last.timestamp] = RETRY_LIMIT - 1
  /\ last.confirms = 1
  /\ jobs = << >>

\* the decryption error handled last got past the rate check, from a sender
\* with the sender key capability, with the retry flag on
DecryptForResend ==
  /\ last.kind = "decrypt"
  /\ last.retryCount <= RETRY_LIMIT
  /\ last.capable
  /\ last.flagOn

\* the ResendRequest job for the decryption error handled last
ResendRequestFor(e) ==
  [type |-> "ResendRequest", conversationId |-> e.uuid,
   timestamp |-> e.timestamp, contentHint |-> e.contentHint, urgent |-> FALSE,
   groupId |-> e.groupId, story |-> FALSE, skdm |-> NoDistribution,
   senderDevice |-> e.device]

\* C31: a decryption error that gets past the rate check, from a sender with
\* the capability and with the flag on, has exactly one effect and is
\* acknowledged once. With its cipher text at hand and the job queue taking
\* the job, one ResendRequest job is added for the sender's conversation,
\* carrying the timestamp, device, group id and content hint of the error,
\* and no reset is scheduled; otherwise one reset for (sender, device) is
\* scheduled with its session-refreshed event, and no job is added. The job
\* goes to the end of the queue when its add completes; the reset is
\* scheduled when requestResend gives up on the job; the error is
\* acknowledged in the stretch after requestResend has returned
C31_ResendOrReset ==
  [][ /\ (Finishes /\ DecryptForResend') =>
           LET e == last' IN
           /\ e.confirms = 1
           /\ ~e.threw
           /\ resetQueue' = resetQueue
           /\ timeline' = timeline
           /\ jobs' = jobs
           /\ \A h \in Handlers : Moved(h) => hpc[h] = "requestResend"
           /\ IF e.cipherOk /\ e.addOk = << TRUE >>
                THEN /\ e.jobs = << ResendRequestFor(e) >>
                     /\ e.resets = << >>
                ELSE /\ e.jobs = << >>
                     /\ e.resets = << << e.uuid, e.device >> >>
      /\ \A h \in Handlers :
           (hpc[h] = "addResendRequest"
              /\ Len(hloc'[h].jobs) > Len(hloc[h].jobs)) =>
             /\ hloc[h].jobs = << >>
             /\ hloc'[h].jobs = << ResendRequestJob(hreq[h]) >>
             /\ jobs' = Append(jobs, ResendRequestJob(hreq[h]))
             /\ resetQueue' = resetQueue
      /\ \A h \in Handlers :
           (Moved(h) /\ hpc'[h] = "requestResend") =>
             /\ hpc[h] \in {"idle", "getProfiles", "addResendRequest"}
             /\ hloc'[h].capable /\ hloc'[h].flagOn
             /\ hloc'[h].confirms = 0
             /\ jobs' = jobs
             /\ resetQueue' = resetQueue \o NewResets(h)
             /\ timeline' = [timeline EXCEPT
                               ![hreq'[h].senderUuid] = @ + Len(NewResets(h))]
             /\ NewResets(h) = hloc'[h].resets
             /\ IF hloc'[h].jobs = << >>
                  THEN hloc'[h].resets = << << hreq'[h].senderUuid,
                                              hreq'[h].senderDevice >> >>
                  ELSE hloc'[h].resets = << >> ]_vars

\* a decryption error of r1 in the group g1 with the hint IMPLICIT led to a
\* ResendRequest job with these values in the chat with r1, and to no reset
C31_Witness ==
  /\ last.kind = "decrypt"
  /\ last.capable /\ last.flagOn /\ last.cipherOk
  /\ retryRecord[TNew] = 1
  /\ last.uuid = "r1"
  /\ last.groupId = "g1"
  /\ last.contentHint = "IMPLICIT"
  /\ Len(jobs) = 1
  /\ jobs[1].type = "ResendRequest"
  /\ jobs[1].conversationId = "r1"
  /\ jobs[1].groupId = "g1"
  /\ jobs[1].contentHint = "IMPLICIT"
  /\ jobs[1].timestamp = TNew
  /\ jobs = last.jobs
  /\ resetQueue = << >>
  /\ last.confirms = 1

\* the retry request handled last passed the flag, the rate check and the age
\* check, and nothing is stored as sent to its requester at its timestamp
HandledNoProto ==
  /\ PassedRateCheck
  /\ ~isOlderThan(last.timestamp, retryRespondMaxAge(last.configured))
  /\ ~SentProtoTable(last.uuid, last.timestamp).found

\* C23 as stated: without a stored record nothing is resent, only the
\* fallback runs, and the request is acknowledged
C23_Original ==
  HandledNoProto =>
    /\ "SavedProto" \notin JobTypes(last.jobs)
    /\ last.outcome = "noProto"
    /\ last.confirms = 1

\* C23: without a stored record no SavedProto job is added and only the
\* fallback runs, with the didArchive of this request: at most one
\* SenderKeyDistribution or NullMessage job, a NullMessage job only after this
\* request archived a session. The request is acknowledged exactly when the
\* fallback returns; the fallback raises, adding nothing, exactly when the
\* request names a known group the requester is not a member of
C23_NoProtoFallback ==
  HandledNoProto =>
    /\ last.outcome = "noProto"
    /\ JobTypes(last.jobs) \subseteq {"SenderKeyDistribution", "NullMessage"}
    /\ Len(last.jobs) <= 1
    /\ "NullMessage" \in JobTypes(last.jobs) => last.didArchive
    /\ last.didArchive =>
         (last.senderDevice = OurDeviceId /\ last.ratchetKey # NoKey)
    /\ last.threw <=> (last.groupId \in Groups
                        /\ ~hasMember(last.groupId, last.uuid))
    /\ last.confirms = (IF last.threw THEN 0 ELSE 1)
    /\ last.threw => last.jobs = << >>

\* a request of r2 for a timestamp nothing was sent to r2 at archived the
\* session and got a NullMessage job and its acknowledgement, nothing else
C23_Witness ==
  /\ HandledNoProto
  /\ last.uuid = "r2"
  /\ last.groupId = NoGroup
  /\ last.didArchive
  /\ JobTypes(last.jobs) = {"NullMessage"}
  /\ jobs = last.jobs
  /\ last.confirms = 1

\* the event a handler is called on in the step, which gets to the rate
\* check, has the timestamp t: every decryption error, and a retry request
\* when the flag is on
ReachesRateCheck(t) ==
  \/ \E h \in Handlers : Starts(h) /\ EventTime(h) = t
  \/ /\ RunsThrough
     /\ last'.timestamp = t
     /\ last'.kind = "retry" => last'.flagOn

\* C22: no step lowers or removes a ledger entry; a step in which an event
\* reaches the rate check raises the entry of the event's timestamp by exactly
\* one, also when the event is then dropped, and leaves the other entries as
\* they are; every other step, every later stretch of a handler among them,
\* leaves the ledger as it is
C22_LedgerMonotonic ==
  [][ /\ DOMAIN retryRecord' = DOMAIN retryRecord
      /\ \A t \in Timestamps : retryRecord'[t] >= retryRecord[t]
      /\ \A t \in Timestamps :
           ReachesRateCheck(t) =>
             retryRecord' = [retryRecord EXCEPT ![t] = @ + 1]
      /\ (\A t \in Timestamps : ~ReachesRateCheck(t)) =>
           retryRecord' = retryRecord ]_vars

\* the sixth retry request of a timestamp was dropped and counted, while the
\* entry of the other timestamp stayed at the three events it had seen
C22_Witness ==
  /\ last.kind = "retry"
  /\ last.outcome = "rateLimited"
  /\ last.timestamp = TOld
  /\ retryRecord[TOld] = RETRY_LIMIT + 1
  /\ retryRecord[TNew] = 3

\* C35: the acknowledgement comes after the work. An event is acknowledged at
\* most once; the stretch in which confirm is called adds no job, and every
\* job the handler adds for the event was stored before it; a handler that
\* returns has called confirm once, a handler that raises has not called it.
\* confirm is called in the last stretch of the handler, but for a story
\* request dropped inside checkDistributionListAndAddSKDM: that handler has
\* added no job, and all it does when it resumes is return
C35_AckAfterWork ==
  [][ /\ \A h \in Handlers :
           /\ (hpc'[h] # "idle" /\ hloc'[h].confirms # 0) =>
                /\ hloc'[h].confirms = 1
                /\ hpc'[h] = "checkDistributionListAndAddSKDM"
                /\ hloc'[h].outcome = "storyDropped"
                /\ hloc'[h].jobs = << >>
                /\ ~hloc'[h].threw
                /\ Moved(h) => jobs' = jobs
           /\ (Moved(h) /\ hloc[h].confirms = 1) =>
                /\ hpc'[h] = "idle"
                /\ last'.confirms = 1
                /\ last'.jobs = << >>
           /\ (hpc'[h] # "idle" /\ hloc'[h].threw) => hpc'[h] \in CallPoints
      /\ Finishes =>
           /\ last'.confirms = (IF last'.threw THEN 0 ELSE 1)
           /\ jobs' = jobs
           /\ Len(last'.jobs) = Cardinality({ k \in DOMAIN last'.addOk :
                                              last'.addOk[k] })
           /\ \A h \in Handlers :
                (Moved(h) /\ hpc'[h] = "idle") =>
                  /\ last'.jobs = hloc[h].jobs
                  /\ hpc[h] \in AddPoints =>
                       (hloc[h].stored \/ ~last'.addOk[Len(last'.addOk)])
           /\ RunsThrough => last'.jobs = << >>
           /\ last'.outcome = "notMember" => last'.threw ]_vars

\* a retry request was answered with a SavedProto job: the job is in the
\* queue and the request has been acknowledged once
C35_Witness ==
  /\ last.kind = "retry"
  /\ last.outcome = "resent"
  /\ last.addOk = << TRUE >>
  /\ last.confirms = 1
  /\ ~last.threw
  /\ Len(jobs) = 1
  /\ jobs[1].type = "SavedProto"
  /\ jobs = last.jobs

----------------------------------------------------------------------------
(* SpecConc: the receiver hands an event to a handler whenever one is free, *)
(* whatever the handlers at work are suspended at. The events are the plain *)
(* ones of r1 for the newer timestamp, met with the flag on or off, any     *)
(* maximum age, and the capability of the sender cached or not.             *)

ConcAddress == << "r1", 1 >>

ConcRetryInputs ==
  [req : ConcRetryRequests, flagOn : BOOLEAN, configured : {0, HOUR},
   delay : {FALSE}]

ConcDecryptionInputs ==
  [err : ConcDecryptionErrors, flagOn : BOOLEAN, cached : BOOLEAN]

\* the resets scheduled and not yet run, and those the decryption errors at
\* work may still schedule
PendingResets ==
  Len(resetQueue) + Cardinality({ g \in Handlers : hloc[g].kind = "decrypt" })

PendingRefreshes ==
  timeline["r1"] + Cardinality({ g \in Handlers : hloc[g].kind = "decrypt" })

\* onRetryRequest is called while other handlers are suspended
CRetryStart(h) ==
  /\ FirstIdle(h)
  /\ retryRecord[TNew] < MaxSeen
  /\ \E i \in ConcRetryInputs : StartRetryRequest(h, i, TRUE)

\* onDecryptionError is called while other handlers are suspended
CDecryptStart(h) ==
  /\ FirstIdle(h)
  /\ retryRecord[TNew] < MaxSeen
  /\ PendingResets < MaxResets
  /\ PendingRefreshes < MaxResets
  /\ \E i \in ConcDecryptionInputs : StartDecryptionError(h, i, TRUE)

NextConc ==
  \/ \E h \in Handlers : CRetryStart(h)
  \/ \E h \in Handlers : CDecryptStart(h)
  \/ \E h \in Handlers : LoadSession(h)
  \/ \E h \in Handlers : ArchiveSession(h)
  \/ \E h \in Handlers : GetSentProtoByRecipient(h)
  \/ \E h \in Handlers : GetMessageById(h)
  \/ \E h \in Handlers : GetSenderKeyDistributionMessage(h)
  \/ \E h \in Handlers : GetProfiles(h)
  \/ \E h \in Handlers : AddJob(h, MaxPending)
  \/ \E h \in Handlers : CallReturns(h)
  \/ \E h \in Handlers : AddReturns(h)
  \/ RunJob
  \/ RunSessionReset
  \/ AddChatSessionRefreshed
  \/ NewSession

SpecConc == Init /\ [][NextConc]_vars

\* C2: however the running handlers interleave, at most RETRY_LIMIT events of
\* a timestamp get past the rate check.
C2_AtMostLimitPass ==
  \A t \in Timestamps : hist.passed[t] <= RETRY_LIMIT

\* more events than the limit were delivered for one timestamp while another
\* handler for it was still suspended, and exactly RETRY_LIMIT got past
C2_Witness ==
  /\ retryRecord[TNew] > RETRY_LIMIT
  /\ hist.passed[TNew] = RETRY_LIMIT
  /\ \E h \in Handlers : hpc[h] # "idle" /\ hloc[h].tracked

\* C21 as stated: each kind of event has its own budget per timestamp: of the
\* events of one kind that reach the rate check the first RETRY_LIMIT pass,
\* however many events of the other kind were received
C21_Original ==
  \A k \in EventKinds, t \in Timestamps :
    hist.passedBy[k][t] =
      (IF hist.seen[k][t] < RETRY_LIMIT THEN hist.seen[k][t] ELSE RETRY_LIMIT)

\* C21: the two kinds of event share one counter per timestamp: the ledger
\* entry of a timestamp is the number of retry requests and decryption errors
\* with it that reached the rate check, and the events of both kinds that got
\* past it are together the first RETRY_LIMIT of them
C21_SharedBudget ==
  \A t \in Timestamps :
    /\ retryRecord[t] = hist.seen["retry"][t] + hist.seen["decrypt"][t]
    /\ hist.passedBy["retry"][t] + hist.passedBy["decrypt"][t] =
         (IF retryRecord[t] < RETRY_LIMIT THEN retryRecord[t] ELSE RETRY_LIMIT)
    /\ hist.passedBy["retry"][t] + hist.passedBy["decrypt"][t] = hist.passed[t]

\* five decryption errors with a timestamp used up its budget, and the first
\* retry request with that timestamp was dropped at the rate check
C21_Witness ==
  /\ hist.seen["decrypt"][TNew] = RETRY_LIMIT
  /\ hist.passedBy["decrypt"][TNew] = RETRY_LIMIT
  /\ hist.seen["retry"][TNew] = 1
  /\ hist.passedBy["retry"][TNew] = 0
  /\ retryRecord[TNew] = RETRY_LIMIT + 1

\* the smaller of two numbers
Min(a, b) == IF a <= b THEN a ELSE b

\* C36: a handler adds at most one job for its event, and the jobs added in
\* answer to the events of a timestamp, retry requests and decryption errors
\* together, however their handlers interleave, never number more than the
\* ledger count of the timestamp nor more than RETRY_LIMIT
C36_JobsWithinBudget ==
  /\ \A h \in Handlers : Len(hloc[h].jobs) <= 1
  /\ \A t \in Timestamps :
       hist.added[t] <= Min(retryRecord[t], RETRY_LIMIT)

\* five jobs were added for a timestamp, for retry requests and decryption
\* errors both, and the sixth event was dropped
C36_Witness ==
  /\ hist.added[TNew] = RETRY_LIMIT
  /\ retryRecord[TNew] = RETRY_LIMIT + 1
  /\ hist.passedBy["retry"][TNew] > 0
  /\ hist.passedBy["decrypt"][TNew] > 0
  /\ \A h \in Handlers : hpc[h] = "idle"

\* the address whose session handler h is about to archive
ArchiveAddress(h) == << hreq[h].requesterUuid, hreq[h].requesterDevice >>

\* C16: whenever a handler's archiveSession runs on an address that has a
\* session, the ratchet key of that session is the key the handler's request
\* claimed, however handlers and new sessions interleave
C16_AtomicCompareAndArchive ==
  [][ \A h \in Handlers :
        (hpc[h] = "archiveSession" /\ hpc'[h] # "archiveSession"
           /\ sessions[ArchiveAddress(h)] # NoKey) =>
          sessions[ArchiveAddress(h)] = hreq[h].ratchetKey ]_vars

\* a handler compared the key k1 and is about to archive, while the address
\* has got a new session with the key k2
C16_Witness ==
  \E h \in Handlers :
    /\ hpc[h] = "archiveSession"
    /\ hreq[h].ratchetKey = "k1"
    /\ sessions[ArchiveAddress(h)] = "k2"

----------------------------------------------------------------------------
(* SpecQueue: the conversation job queue. Jobs are added by the recovery   *)
(* handlers and by the sending of messages; the queue starts the oldest    *)
(* job of a conversation when no job of that conversation is running.      *)
(* What a running job does to its message is the subject of SpecSend.      *)

\* the conversations messages are sent in: the group g1 and the chat with r1
SendConversations == {"g1", "r1"}

\* conversationJobQueue.add of a NormalMessage job for one conversation
NormalMessageJob(conversationId) ==
  Job("NormalMessage", conversationId, 0, "RESENDABLE", TRUE, NoGroup, FALSE,
      NoDistribution, 0)

QueueRetryInputs ==
  [req : [groupId : {NoGroup, "g1"}, requesterUuid : {"r1"},
          requesterDevice : RequesterDevices, senderDevice : {OurDeviceId},
          sentAt : Timestamps, ratchetKey : {"k1"}],
   flagOn : {TRUE}, configured : {0}, delay : {FALSE}]

QueueDecryptionInputs ==
  [err : [senderUuid : {"r1"}, senderDevice : RequesterDevices,
          timestamp : {TNew}, cipherOk : {TRUE},
          contentHint : {"RESENDABLE"}, groupId : {NoGroup, "g1"}],
   flagOn : {TRUE}, cached : BOOLEAN]

\* the jobs of one conversation among `js`
JobsOf(js, conversationId) ==
  SelectSeq(js, LAMBDA j : j.conversationId = conversationId)

\* the sequence without its element at index i
Without(js, i) == SubSeq(js, 1, i - 1) \o SubSeq(js, i + 1, Len(js))

\* the jobs the queue has started and not finished
Running == [k \in DOMAIN inFlight |-> inFlight[k].job]

\* the queue may start the waiting job at index i: no job of its conversation
\* is running and none of its conversation has waited longer
MayStart(i) ==
  /\ JobsOf(Running, jobs[i].conversationId) = << >>
  /\ JobsOf(SubSeq(jobs, 1, i - 1), jobs[i].conversationId) = << >>

\* faulty MayReturn: the job returns while its group send is under way
MayReturnUnawaited(pc) == TRUE

\* sendNormalMessage awaits the promise of conversation.queueJob before it
\* goes on to its end: a job whose group send is under way does not return
MayReturn(pc) == pc # "innerPromise"

\* onRetryRequest is called while jobs wait and run; a plain request may
\* arrive while another handler is suspended
QRetryRequest(h) ==
  /\ FirstIdle(h)
  /\ \E i \in QueueRetryInputs :
       /\ retryRecord[i.req.sentAt] < MaxEvents
       /\ Idle \/ MayOverlap("retry", i.req, i.flagOn)
       /\ StartRetryRequest(h, i, FALSE)

\* onDecryptionError is called while jobs wait and run; a plain error may
\* arrive while another handler is suspended
QDecryptionError(h) ==
  /\ FirstIdle(h)
  /\ \E i \in QueueDecryptionInputs :
       /\ retryRecord[i.err.timestamp] < MaxEvents
       /\ Idle \/ MayOverlap("decrypt", i.err, i.flagOn)
       /\ StartDecryptionError(h, i, FALSE)

\* a message is sent in a conversation: its NormalMessage job is added
QEnqueueNormalMessage ==
  \E c \in SendConversations :
    /\ Len(jobs) < MaxQueued
    /\ jobs' = Append(jobs, NormalMessageJob(c))
    /\ UNCHANGED << retryRecord, sessions, resetQueue, timeline, last, concVars,
                    sendVars, queueVars, protoVars, rangeVars >>

\* the queue starts a waiting job
QStart ==
  \E i \in DOMAIN jobs :
    /\ MayStart(i)
    /\ inFlight' = Append(inFlight, [job |-> jobs[i], pc |-> "running"])
    /\ jobs' = Without(jobs, i)
    /\ UNCHANGED << retryRecord, sessions, resetQueue, timeline, last, concVars,
                    sendVars, groupSends, protoVars, rangeVars >>

\* a running NormalMessage job of a group (conversationType ===
\* Message.GROUP) comes to its group send:
\* conversation.queueJob('conversationQueue/sendNormalMessage', ...) puts
\* sendToGroup on the queue of the conversation, and the job awaits it
QSendToGroup ==
  \E k \in DOMAIN inFlight :
    /\ inFlight[k].job.type = "NormalMessage"
    /\ inFlight[k].job.conversationId \in Groups
    /\ inFlight[k].pc = "running"
    /\ inFlight' = [inFlight EXCEPT ![k].pc = "innerPromise"]
    /\ groupSends' = Append(groupSends, inFlight[k].job.conversationId)
    /\ UNCHANGED << recoveryVars, concVars, sendVars, protoVars, rangeVars >>

\* the oldest group send of a conversation settles; the job that awaits it,
\* if it is still running, goes on
QGroupSendSettles ==
  \E n \in DOMAIN groupSends :
    /\ \A m \in 1 .. (n - 1) : groupSends[m] # groupSends[n]
    /\ groupSends' = Without(groupSends, n)
    /\ inFlight' = [k \in DOMAIN inFlight |->
                      IF inFlight[k].job.conversationId = groupSends[n]
                         /\ inFlight[k].pc = "innerPromise"
                        THEN [inFlight[k] EXCEPT !.pc = "settled"]
                        ELSE inFlight[k]]
    /\ UNCHANGED << recoveryVars, concVars, sendVars, protoVars, rangeVars >>

\* a running job returns or throws
QFinish ==
  \E k \in DOMAIN inFlight :
    /\ MayReturn(inFlight[k].pc)
    /\ inFlight' = Without(inFlight, k)
    /\ UNCHANGED << recoveryVars, concVars, sendVars, groupSends, protoVars,
                    rangeVars >>

NextQueue ==
  \/ \E h \in Handlers : QRetryRequest(h)
  \/ \E h \in Handlers : QDecryptionError(h)
  \/ \E h \in Handlers : LoadSession(h)
  \/ \E h \in Handlers : ArchiveSession(h)
  \/ \E h \in Handlers : GetSentProtoByRecipient(h)
  \/ \E h \in Handlers : GetMessageById(h)
  \/ \E h \in Handlers : GetSenderKeyDistributionMessage(h)
  \/ \E h \in Handlers : GetProfiles(h)
  \/ \E h \in Handlers : AddJob(h, MaxQueued)
  \/ \E h \in Handlers : CallReturns(h)
  \/ \E h \in Handlers : AddReturns(h)
  \/ QEnqueueNormalMessage
  \/ QStart
  \/ QSendToGroup
  \/ QGroupSendSettles
  \/ QFinish

SpecQueue == Init /\ [][NextQueue]_vars

RecoveryJobTypes ==
  {"SavedProto", "SenderKeyDistribution", "NullMessage", "ResendRequest"}

\* the running jobs that are of one of the given types
RunningOf(types) == { k \in DOMAIN inFlight : inFlight[k].job.type \in types }

\* the claim as it was made: of every conversation at most one job is
\* running, and the jobs of the recovery handlers for a conversation take
\* their turn with the group sends of that conversation, so that a sender
\* key distribution message for a group is never under way together with a
\* message sent to that group
C25_Original ==
  /\ \A a, b \in DOMAIN inFlight :
       a # b => inFlight[a].job.conversationId # inFlight[b].job.conversationId
  /\ \A a \in RunningOf(RecoveryJobTypes), b \in RunningOf({"NormalMessage"}) :
       inFlight[a].job.groupId # inFlight[b].job.conversationId

\* C25: of every conversation id at most one job is running at any time,
\* whether a NormalMessage job or a job added by the recovery handlers; every
\* job of the recovery handlers is filed under the chat with the peer it
\* answers, never under the group it names, so it takes its turn with the
\* messages sent in that chat and with no group send; a group send is under
\* way only while the NormalMessage job of its group awaits it, so that of
\* one group at most one is under way
C25_OneJobPerConversation ==
  /\ \A a, b \in DOMAIN inFlight :
       a # b => inFlight[a].job.conversationId # inFlight[b].job.conversationId
  /\ \A j \in Range(jobs) \cup Range(Running) :
       IF j.type \in RecoveryJobTypes
         THEN j.conversationId \in Requesters
         ELSE j.type = "NormalMessage" /\ j.conversationId \in SendConversations
  /\ \A m, n \in DOMAIN groupSends : m # n => groupSends[m] # groupSends[n]
  /\ \A n \in DOMAIN groupSends :
       \E k \in RunningOf({"NormalMessage"}) :
         /\ inFlight[k].job.conversationId = groupSends[n]
         /\ inFlight[k].pc = "innerPromise"
  /\ \A k \in DOMAIN inFlight :
       inFlight[k].pc = "innerPromise" =>
         inFlight[k].job.conversationId \in Range(groupSends)

\* a sender key distribution message for the group g1, filed under the chat
\* with r1, is running while a message is being sent to g1, and a resend to
\* r1 waits for its turn
C25_Witness ==
  /\ Len(inFlight) = 2
  /\ \E a, b \in DOMAIN inFlight :
       /\ inFlight[a].job.type = "SenderKeyDistribution"
       /\ inFlight[a].job.conversationId = "r1"
       /\ inFlight[a].job.groupId = "g1"
       /\ inFlight[b].job.type = "NormalMessage"
       /\ inFlight[b].job.conversationId = "g1"
       /\ inFlight[b].pc = "innerPromise"
  /\ groupSends = << "g1" >>
  /\ Len(jobs) = 1
  /\ jobs[1].type = "SavedProto"
  /\ jobs[1].conversationId = "r1"

----------------------------------------------------------------------------
(* sendNormalMessage: the message, the conversation and the contacts *)

ConversationKinds == {"group", "direct", "me"}

\* what the attempt can find out about one contact when it runs
OkContact ==
  [exists |-> TRUE, member |-> TRUE, untrusted |-> FALSE, hasUuid |-> TRUE,
   unregistered |-> FALSE, blocked |-> FALSE, hasSendTarget |-> TRUE]

ContactProfiles ==
  { OkContact,
    [OkContact EXCEPT !.exists = FALSE],
    [OkContact EXCEPT !.member = FALSE],
    [OkContact EXCEPT !.untrusted = TRUE],
    [OkContact EXCEPT !.untrusted = TRUE, !.hasUuid = FALSE],
    [OkContact EXCEPT !.untrusted = TRUE, !.blocked = TRUE],
    [OkContact EXCEPT !.unregistered = TRUE],
    [OkContact EXCEPT !.blocked = TRUE],
    [OkContact EXCEPT !.hasSendTarget = FALSE] }

\* errors, by their message
ErrTimeout == "Message send ran out of time"
ErrCannotReact == "Could not react to story"
ErrNoValidRecipients == "No valid recipients"
ErrNotAccepted == "Message request was not accepted"
ErrUnregistered == "Contact no longer has a Signal account"
ErrBlocked == "Contact is blocked"
ErrUntrusted == "sending blocked because conversation(s) were untrusted"
ErrOnlyStoryReactions == "Only story reactions can be sent as normal messages"
ErrNotFullySent == "message did not fully send"
ErrNetwork == "network error"
ErrServerStop == "HTTP 508"
NoError == "none"
TransportErrors == {ErrNetwork, ErrServerStop}

\* isSent of messages/MessageSendState
isSent(status) == status = "Sent"

isMe(id) == id = Me

\* sendStateReducer of messages/MessageSendState, for the two actions a send
\* applies: Sent moves a recipient up to Sent, Failed fails a Pending one
sendStateReducer(status, action) ==
  IF action = "Sent"
    THEN (IF status \in {"Pending", "Failed"} THEN "Sent" ELSE status)
    ELSE (IF status = "Pending" THEN "Failed" ELSE status)

\* conversation.getMemberConversationIds()
getMemberConversationIds(conversation, contacts) ==
  IF conversation = "group"
    THEN {Me} \cup { id \in Contacts : contacts[id].member }
    ELSE IF conversation = "direct" THEN {"a"} ELSE {Me}

\* faulty callback: an untrusted recipient without UUID is reported untrusted
RecipientClassUntrustedWithoutUuid(id, status, conversation, contacts) ==
  LET recipient == IF isMe(id) THEN OkContact ELSE contacts[id] IN
  IF status = Absent THEN "absent"
  ELSE IF ~recipient.exists THEN "skipped"
  ELSE IF id \notin getMemberConversationIds(conversation, contacts) /\ ~isMe(id)
    THEN "skipped"
  ELSE IF recipient.untrusted THEN "untrusted"
  ELSE IF recipient.unregistered THEN "skipped"
  ELSE IF recipient.blocked THEN "skipped"
  ELSE IF ~recipient.hasSendTarget THEN "skipped"
  ELSE IF isSent(status) THEN "sent"
  ELSE "toSend"

\* faulty callback: the current members of the conversation are not looked at
RecipientClassIgnoresMembership(id, status, conversation, contacts) ==
  LET recipient == IF isMe(id) THEN OkContact ELSE contacts[id] IN
  IF status = Absent THEN "absent"
  ELSE IF ~recipient.exists THEN "skipped"
  ELSE IF recipient.untrusted
    THEN (IF recipient.hasUuid THEN "untrusted" ELSE "skipped")
  ELSE IF recipient.unregistered THEN "skipped"
  ELSE IF recipient.blocked THEN "skipped"
  ELSE IF ~recipient.hasSendTarget THEN "skipped"
  ELSE IF isSent(status) THEN "sent"
  ELSE "toSend"

\* the callback getMessageRecipients runs on one entry of the send-state map
RecipientClass(id, status, conversation, contacts) ==
  LET recipient == IF isMe(id) THEN OkContact ELSE contacts[id] IN
  IF status = Absent THEN "absent"
  ELSE IF ~recipient.exists THEN "skipped"
  ELSE IF id \notin getMemberConversationIds(conversation, contacts) /\ ~isMe(id)
    THEN "skipped"
  ELSE IF recipient.untrusted
    THEN (IF recipient.hasUuid THEN "untrusted" ELSE "skipped")
  ELSE IF recipient.unregistered THEN "skipped"
  ELSE IF recipient.blocked THEN "skipped"
  ELSE IF ~recipient.hasSendTarget THEN "skipped"
  ELSE IF isSent(status) THEN "sent"
  ELSE "toSend"

\* faulty getMessageRecipients: a sent recipient is collected for sending
getMessageRecipientsResendsSent(sendStateByConversationId, conversation, contacts) ==
  LET class(id) ==
        RecipientClass(id, sendStateByConversationId[id], conversation, contacts)
  IN [allRecipientIdentifiers |->
        SelectSeq(SendStateOrder, LAMBDA id : class(id) \in {"toSend", "sent"}),
      recipientIdentifiersWithoutMe |->
        SelectSeq(SendStateOrder,
                  LAMBDA id : class(id) \in {"toSend", "sent"} /\ ~isMe(id)),
      sentRecipientIdentifiers |->
        SelectSeq(SendStateOrder, LAMBDA id : class(id) = "sent"),
      untrustedUuids |->
        SelectSeq(SendStateOrder, LAMBDA id : class(id) = "untrusted")]

\* faulty getMessageRecipients: untrusted recipients are only left out
getMessageRecipientsSkipsUntrusted(sendStateByConversationId, conversation, contacts) ==
  LET class(id) ==
        RecipientClass(id, sendStateByConversationId[id], conversation, contacts)
  IN [allRecipientIdentifiers |->
        SelectSeq(SendStateOrder, LAMBDA id : class(id) = "toSend"),
      recipientIdentifiersWithoutMe |->
        SelectSeq(SendStateOrder, LAMBDA id : class(id) = "toSend" /\ ~isMe(id)),
      sentRecipientIdentifiers |->
        SelectSeq(SendStateOrder, LAMBDA id : class(id) = "sent"),
      untrustedUuids |-> << >>]

getMessageRecipients(sendStateByConversationId, conversation, contacts) ==
  LET class(id) ==
        RecipientClass(id, sendStateByConversationId[id], conversation, contacts)
  IN [allRecipientIdentifiers |->
        SelectSeq(SendStateOrder, LAMBDA id : class(id) = "toSend"),
      recipientIdentifiersWithoutMe |->
        SelectSeq(SendStateOrder, LAMBDA id : class(id) = "toSend" /\ ~isMe(id)),
      sentRecipientIdentifiers |->
        SelectSeq(SendStateOrder, LAMBDA id : class(id) = "sent"),
      untrustedUuids |->
        SelectSeq(SendStateOrder, LAMBDA id : class(id) = "untrusted")]

NoRecipients ==
  [allRecipientIdentifiers |-> << >>, recipientIdentifiersWithoutMe |-> << >>,
   sentRecipientIdentifiers |-> << >>, untrustedUuids |-> << >>]

\* message.markFailed(): every recipient takes the Failed action
markFailed(sendStateByConversationId) ==
  [id \in RecipientIds |->
     IF sendStateByConversationId[id] = Absent THEN Absent
     ELSE sendStateReducer(sendStateByConversationId[id], "Failed")]

\* message.saveErrors(errors, {skipSave: true}): the new errors are put in
\* front of the ones the message holds
saveErrors(held, errors) == errors \o held

\* faulty markMessageFailed: every recipient is set to Failed
markMessageFailedEveryone(message, errors) ==
  [sendState |-> [id \in RecipientIds |->
                    IF message.sendState[id] = Absent THEN Absent ELSE "Failed"],
   errors |-> saveErrors(message.errors, errors)]

\* faulty markMessageFailed: the errors are not put on the message
markMessageFailedNoErrors(message, errors) ==
  [sendState |-> markFailed(message.sendState), errors |-> message.errors]

\* markMessageFailed up to its await on saveMessage
markMessageFailed(message, errors) ==
  [sendState |-> markFailed(message.sendState),
   errors |-> saveErrors(message.errors, errors)]

\* faulty didSendToEveryone: always satisfied
didSendToEveryoneAlways(sendStateByConversationId) == TRUE

didSendToEveryone(sendStateByConversationId) ==
  \A id \in RecipientIds :
    sendStateByConversationId[id] # Absent => isSent(sendStateByConversationId[id])

\* message.send(promise, saveErrors) together with the transport call whose
\* promise it is given: the transport fails for the targets in failed, each
\* with error. Recipients sent to become Sent; a failed recipient is failed
\* only when there is no saveErrors callback, and then the errors are put on
\* the message, else they are handed to the callback; a message sent to
\* somebody is synced to our own devices, which marks our own entry Sent
messageSend(message, targets, failed, error, hasSaveErrors) ==
  LET successfulIdentifiers == SelectSeq(targets, LAMBDA id : id \notin failed)
      failedIdentifiers == SelectSeq(targets, LAMBDA id : id \in failed)
      errorsToSave == [i \in DOMAIN failedIdentifiers |-> error]
      sentToAtLeastOneRecipient == successfulIdentifiers # << >>
      status(id) == message.sendState[id]
  IN [sendState |->
        [id \in RecipientIds |->
           IF status(id) = Absent THEN Absent
           ELSE IF id \in Range(successfulIdentifiers)
             THEN sendStateReducer(status(id), "Sent")
           ELSE IF id \in Range(failedIdentifiers) /\ ~hasSaveErrors
             THEN sendStateReducer(status(id), "Failed")
           ELSE IF isMe(id) /\ sentToAtLeastOneRecipient
             THEN sendStateReducer(status(id), "Sent")
           ELSE status(id)],
      errors |-> IF hasSaveErrors THEN << >> ELSE saveErrors(<< >>, errorsToSave),
      messageSendErrors |-> IF hasSaveErrors THEN errorsToSave ELSE << >>,
      originalError |-> IF failedIdentifiers # << >> THEN error ELSE NoError]

\* message.sendSyncMessageOnly(dataMessage, saveErrors): on success our own
\* entry becomes Sent; on failure the error goes to the callback, or onto the
\* message when there is none, and is thrown again
sendSyncMessageOnly(message, syncFails, error, hasSaveErrors) ==
  IF ~syncFails
    THEN [sendState |->
            [message.sendState EXCEPT
               ![Me] = IF @ = Absent THEN Absent ELSE sendStateReducer(@, "Sent")],
          errors |-> << >>, messageSendErrors |-> << >>, threw |-> NoError]
    ELSE [sendState |-> message.sendState,
          errors |-> IF hasSaveErrors THEN << >> ELSE saveErrors(<< >>, << error >>),
          messageSendErrors |-> IF hasSaveErrors THEN << error >> ELSE << >>,
          threw |-> error]

\* handleMultipleSendErrors: gives up on the final attempt and when the
\* server asked us to stop (508, 428); giving up awaits markFailed, whose
\* result is failedMessage. It throws toThrow unless the server asked to stop
handleMultipleSendErrors(errors, isFinalAttempt, message, failedMessage) ==
  LET serverAskedUsToStop == \E i \in DOMAIN errors : errors[i] = ErrServerStop
      giveUp == isFinalAttempt \/ serverAskedUsToStop
  IN [message |-> IF giveUp THEN failedMessage ELSE message,
      gaveUp |-> giveUp,
      threw |-> ~serverAskedUsToStop]

\* what an attempt reports next to the message it leaves behind
NoReport ==
  [path |-> "none", resolved |-> FALSE, recipients |-> NoRecipients,
   transport |-> "none", targets |-> << >>, failed |-> {},
   thrown |-> NoError, toThrow |-> NoError, messageSendErrors |-> << >>,
   classifierErrors |-> << >>, gaveUp |-> FALSE, outcome |-> "returned",
   saveAwaited |-> FALSE, saveUnawaited |-> FALSE, stopped |-> FALSE]

\* faulty Caught: the errors collected by the callback are left out of
\* what the classifier is given
CaughtDropsSendErrors(message, isFinalAttempt, thrownError, originalError, messageSendErrors, report) ==
  LET errors == << thrownError >>
      h == handleMultipleSendErrors(errors, isFinalAttempt, message,
                                    markMessageFailed(message, messageSendErrors))
  IN [message |-> h.message,
      report |-> [report EXCEPT
         !.thrown = thrownError,
         !.toThrow = IF originalError # NoError THEN originalError ELSE thrownError,
         !.messageSendErrors = messageSendErrors,
         !.classifierErrors = errors,
         !.gaveUp = h.gaveUp,
         !.outcome = IF h.threw THEN "threw" ELSE "returned",
         !.saveAwaited = report.saveAwaited \/ h.gaveUp]]

\* the catch block of sendNormalMessage
Caught(message, isFinalAttempt, thrownError, originalError, messageSendErrors, report) ==
  LET errors == << thrownError >> \o messageSendErrors
      h == handleMultipleSendErrors(errors, isFinalAttempt, message,
                                    markMessageFailed(message, messageSendErrors))
  IN [message |-> h.message,
      report |-> [report EXCEPT
         !.thrown = thrownError,
         !.toThrow = IF originalError # NoError THEN originalError ELSE thrownError,
         !.messageSendErrors = messageSendErrors,
         !.classifierErrors = errors,
         !.gaveUp = h.gaveUp,
         !.outcome = IF h.threw THEN "threw" ELSE "returned",
         !.saveAwaited = report.saveAwaited \/ h.gaveUp]]

\* faulty AfterSend: the send counts as complete only when every recipient
\* on the message is Sent
AfterSendRequiresEveryone(message, isFinalAttempt, originalError, messageSendErrors, report) ==
  IF didSendToEveryone(message.sendState)
    THEN [message |-> message,
          report |-> [report EXCEPT !.messageSendErrors = messageSendErrors]]
    ELSE Caught(message, isFinalAttempt, ErrNotFullySent, originalError,
                messageSendErrors, report)

\* the end of the try block, after the send promise was awaited
AfterSend(message, isFinalAttempt, originalError, messageSendErrors, report) ==
  LET didFullySend ==
        messageSendErrors = << >> \/ didSendToEveryone(message.sendState)
  IN IF didFullySend
       THEN [message |-> message,
             report |-> [report EXCEPT !.messageSendErrors = messageSendErrors]]
       ELSE Caught(message, isFinalAttempt, ErrNotFullySent, originalError,
                   messageSendErrors, report)

\* faulty UntrustedAbort: the conversation is not reported as stopped
UntrustedAbortNoSignal(message, isFinalAttempt, report) ==
  Caught(message, isFinalAttempt, ErrUntrusted, NoError, << >>,
         [report EXCEPT !.path = "untrusted"])

\* untrusted recipients were found: conversationStoppedByMissingVerification
\* is dispatched for the conversation and the attempt throws into its catch
\* block
UntrustedAbort(message, isFinalAttempt, report) ==
  LET c == Caught(message, isFinalAttempt, ErrUntrusted, NoError, << >>,
                  [report EXCEPT !.path = "untrusted"])
  IN [message |-> c.message, report |-> [c.report EXCEPT !.stopped = TRUE]]

\* faulty NoValidRecipients: a sync message is sent in every conversation
NoValidRecipientsSyncsAnyway(conversation, recipients) == FALSE

\* faulty NoValidRecipients: the recipients already sent to are not looked at
NoValidRecipientsIgnoresSent(conversation, recipients) ==
  /\ ~isMe(conversation)
  /\ conversation # "group"

\* nobody but us is left to send to: the attempt fails the job instead of
\* sending a sync message when the conversation is neither Note to Self nor a
\* group and nobody was sent to before
NoValidRecipients(conversation, recipients) ==
  /\ ~isMe(conversation)
  /\ conversation # "group"
  /\ recipients.sentRecipientIdentifiers = << >>

\* faulty RefuseToSend: the attempt returns and leaves the message as it is
RefuseToSendLeavesPending(message, path, error, report) ==
  [message |-> message, report |-> [report EXCEPT !.path = path]]

\* the attempt refuses to send: markMessageFailed is called with the error
\* and not awaited, and the attempt returns
RefuseToSend(message, path, error, report) ==
  [message |-> markMessageFailed(message, << error >>),
   report |-> [report EXCEPT !.path = path, !.saveUnawaited = TRUE]]

\* faulty RanOutOfTime: the attempt returns and leaves the message as it is
RanOutOfTimeLeavesPending(message) ==
  [message |-> message, report |-> [NoReport EXCEPT !.path = "ranOutOfTime"]]

\* the time budget is used up: the message is marked failed with the timeout
\* error, the save is awaited, and the attempt returns
RanOutOfTime(message) ==
  [message |-> markMessageFailed(message, << ErrTimeout >>),
   report |-> [NoReport EXCEPT !.path = "ranOutOfTime", !.saveAwaited = TRUE]]

\* faulty GivesUpAtOnce: an erased message is sent like any other
GivesUpAtOnceSendsErased(status) ==
  IF status = "missing" THEN "notFound"
  ELSE IF status = "otherConversation" THEN "conversationMismatch"
  ELSE IF status = "incoming" THEN "notOutgoing"
  ELSE IF status = "deletedForEveryone" THEN "erased"
  ELSE "none"

\* the returns at the head of sendNormalMessage, in the order of the code:
\* the message was not found, belongs to another conversation than the
\* job's, is not outgoing, or is erased or deleted for everyone; "none" when
\* the attempt goes on
GivesUpAtOnce(status) ==
  IF status = "missing" THEN "notFound"
  ELSE IF status = "otherConversation" THEN "conversationMismatch"
  ELSE IF status = "incoming" THEN "notOutgoing"
  ELSE IF status \in {"erased", "deletedForEveryone"} THEN "erased"
  ELSE "none"

\* sendNormalMessage runs from await to await. run is the attempt: its
\* bundle [isFinalAttempt, shouldContinue], what it has found around it so
\* far (env), the message before it, its report and the await it is at (pc);
\* message is the message in memory, [sendState, errors]. A stretch gives the
\* attempt and the message at the next await, and what it wrote to the
\* message store: stored, awaited ("written") or not awaited ("pending")
Stretch(run, message, store, stored) ==
  [run |-> run, message |-> message, store |-> store, stored |-> stored]

\* the stretch ends with the return or the throw of sendNormalMessage
Returns(run, report, message) ==
  Stretch([run EXCEPT !.pc = "done", !.report = report], message, "none", message)

\* the stretch ends in the catch block, inside handleMultipleSendErrors
Catches(run, caught) ==
  Stretch([run EXCEPT !.pc = "handleMultipleSendErrors", !.report = caught.report],
          caught.message, "none", caught.message)

\* getMessageById has resolved: the guards at the head of the function, the
\* time budget, and whether our profile key is needed
checkMessage(run, status, message) ==
  LET seen == [run EXCEPT !.status = status]
      timedOut == RanOutOfTime(message)
  IN
  IF GivesUpAtOnce(status) # "none"
    THEN Returns(seen, [NoReport EXCEPT !.path = GivesUpAtOnce(status)], message)
  ELSE IF ~run.bundle.shouldContinue
    THEN Stretch([seen EXCEPT !.pc = "markMessageFailed",
                              !.report = timedOut.report],
                 timedOut.message, "none", message)
  ELSE Stretch([seen EXCEPT !.pc = "profileSharing"], message, "none", message)

\* the profile key is at hand: the recipients are resolved from the send
\* states and from the contacts as they are now, and getMessageSendData is
\* called
resolveRecipients(run, message, contacts, accepted) ==
  LET r == getMessageRecipients(message.sendState, run.conversation, contacts)
      tried == [NoReport EXCEPT !.resolved = TRUE, !.recipients = r]
      seen == [run EXCEPT !.env.contacts = contacts, !.env.accepted = accepted,
                          !.report = tried]
  IN
  IF r.untrustedUuids # << >>
    THEN Catches(seen, UntrustedAbort(message, run.bundle.isFinalAttempt, tried))
  ELSE IF r.allRecipientIdentifiers = << >>
    THEN Returns(seen, [tried EXCEPT !.path = "alreadySent"], message)
  ELSE Stretch([seen EXCEPT !.pc = "getMessageSendData"], message, "none", message)

\* getMessageSendData has resolved: a story reaction needs its story and the
\* permission to react; with nobody but us to send to the attempt refuses or
\* builds the data message of a sync send, else it asks for the send options
checkReaction(run, message, reaction) ==
  LET r == run.report.recipients
      seen == [run EXCEPT !.env.reaction = reaction]
      tried == run.report
      failed == markMessageFailed(message, << ErrCannotReact >>)
      refused == RefuseToSend(message, "noValidRecipients", ErrNoValidRecipients,
                              tried)
  IN
  IF reaction = "noStory"
    THEN Catches(seen, Caught(message, run.bundle.isFinalAttempt,
                              ErrOnlyStoryReactions, NoError, << >>,
                              [tried EXCEPT !.path = "reactionWithoutStory"]))
  ELSE IF reaction = "refused"
    THEN Stretch([seen EXCEPT !.pc = "markMessageFailed",
                              !.report = [tried EXCEPT !.path = "cannotReact",
                                                       !.saveAwaited = TRUE]],
                 failed, "none", message)
  ELSE IF r.recipientIdentifiersWithoutMe = << >>
    THEN IF NoValidRecipients(run.conversation, r)
           THEN Stretch([seen EXCEPT !.pc = "done", !.report = refused.report],
                        refused.message,
                        IF refused.report.saveUnawaited THEN "pending" ELSE "none",
                        refused.message)
           ELSE Stretch([seen EXCEPT !.pc = "getDataMessage"], message, "none",
                        message)
  ELSE Stretch([seen EXCEPT !.pc = "getSendOptions"], message, "none", message)

\* getDataMessage has resolved: the sync send is started
startSyncSend(run, message) ==
  Stretch([run EXCEPT !.pc = "messageSendPromise",
                      !.report = [run.report EXCEPT !.path = "syncOnly",
                                                    !.transport = "sync",
                                                    !.saveAwaited = TRUE]],
          message, "none", message)

\* getSendOptions has resolved. A group send is started; in a direct
\* conversation the attempt refuses when the conversation is not accepted or
\* the contact, as it is now, is unregistered or blocked, and else starts the
\* send. changed: what has happened to the contact since the recipients were
\* resolved
startSend(run, message, changed) ==
  LET r == run.report.recipients
      conversation == run.conversation
      seen == [run EXCEPT !.env.changed = changed]
      tried == run.report
      targets == IF conversation = "group"
                   THEN r.recipientIdentifiersWithoutMe
                   ELSE SubSeq(r.recipientIdentifiersWithoutMe, 1, 1)
      Refuse(path, error) ==
        LET refused == RefuseToSend(message, path, error, tried) IN
        Stretch([seen EXCEPT !.pc = "done", !.report = refused.report],
                refused.message,
                IF refused.report.saveUnawaited THEN "pending" ELSE "none",
                refused.message)
  IN
  IF conversation # "group" /\ ~run.env.accepted
    THEN Refuse("notAccepted", ErrNotAccepted)
  ELSE IF conversation # "group"
            /\ (run.env.contacts["a"].unregistered \/ changed = "unregistered")
    THEN Refuse("unregistered", ErrUnregistered)
  ELSE IF conversation # "group"
            /\ (run.env.contacts["a"].blocked \/ changed = "blocked")
    THEN Refuse("blocked", ErrBlocked)
  ELSE Stretch([seen EXCEPT !.pc = "innerPromise",
                            !.report = [tried EXCEPT !.path = conversation,
                                                     !.transport = conversation,
                                                     !.targets = targets,
                                                     !.saveAwaited = TRUE]],
               message, "none", message)

\* the transport call has settled, having failed for the targets in failed
\* with error: message.send updates the message in memory, and the attempt
\* keeps the error the call was rejected with
innerPromiseSettled(run, message, failed, error) ==
  LET sent == messageSend(message, run.report.targets, failed, error,
                          ~run.bundle.isFinalAttempt)
  IN Stretch([run EXCEPT !.pc = "messageSendPromise",
                         !.env.failed = failed, !.env.error = error,
                         !.report.failed = failed \cap Range(run.report.targets),
                         !.originalError = sent.originalError,
                         !.messageSendErrors = sent.messageSendErrors],
             [sendState |-> sent.sendState, errors |-> sent.errors],
             "none", message)

\* the promise of message.send or message.sendSyncMessageOnly has settled,
\* the message saved as the send left it: the attempt returns when the send
\* was complete and goes to its catch block when not
sendPromiseSettled(run, message, syncFails, error) ==
  LET isFinalAttempt == run.bundle.isFinalAttempt
      sync == sendSyncMessageOnly(message, syncFails, error, ~isFinalAttempt)
      synced == [sendState |-> sync.sendState, errors |-> sync.errors]
      seen == [run EXCEPT !.env.syncFails = syncFails, !.env.error = error]
      after == IF run.report.transport # "sync"
                 THEN AfterSend(message, isFinalAttempt, run.originalError,
                                run.messageSendErrors, run.report)
               ELSE IF sync.threw # NoError
                 THEN Caught(synced, isFinalAttempt, sync.threw, NoError,
                             sync.messageSendErrors, run.report)
               ELSE AfterSend(synced, isFinalAttempt, NoError,
                              sync.messageSendErrors, run.report)
      left == IF run.report.transport = "sync" THEN synced ELSE message
  IN Stretch([(IF run.report.transport = "sync" THEN seen ELSE run) EXCEPT
                !.pc = IF after.report.thrown = NoError
                         THEN "done" ELSE "handleMultipleSendErrors",
                !.report = after.report],
             after.message, "written", left)

\* handleMultipleSendErrors is through: when it gave up the message is saved
\* as marked failed; the attempt throws or returns as the classifier did
classifierReturned(run, message) ==
  Stretch([run EXCEPT !.pc = "done"], message,
          IF run.report.gaveUp THEN "written" ELSE "none", message)

\* the saveMessage that markMessageFailed awaits is through, and the attempt
\* returns
failureSaved(run, message) ==
  Stretch([run EXCEPT !.pc = "done"], message,
          IF run.report.saveAwaited THEN "written" ELSE "none", message)

----------------------------------------------------------------------------
(* SpecSend: the job queue runs attempts for one message *)

Bundles == [isFinalAttempt : BOOLEAN, shouldContinue : BOOLEAN]

AllOk == [id \in Contacts |-> OkContact]

DefaultEnv ==
  [contacts |-> AllOk, accepted |-> TRUE, reaction |-> "none",
   changed |-> "none", failed |-> {}, error |-> ErrNetwork,
   syncFails |-> FALSE]

Reactions == {"none", "allowed", "refused", "noStory"}

ContactChanges == {"none", "unregistered", "blocked"}

\* the contacts and the conversation as the attempt can find them when it
\* resolves the recipients
ResolveInputs ==
  [contacts : [Contacts -> ContactProfiles], accepted : BOOLEAN]

\* the ways the transport can fail for the targets
TransportResults(run) ==
  { t \in [failed : SUBSET Range(run.report.targets), error : TransportErrors] :
      t.failed = {} => t.error = ErrNetwork }

\* the ways the sync send can fail
SyncResults(run) ==
  { t \in [syncFails : BOOLEAN, error : TransportErrors] :
      ~t.syncFails => t.error = ErrNetwork }

\* the messages a job can be enqueued for: every recipient Pending, or some
\* already Sent by an earlier job
EnqueuedSendStates(kind) ==
  LET present == IF kind = "group" THEN RecipientIds
                 ELSE IF kind = "direct" THEN {Me, "a"} ELSE {Me}
  IN { f \in [RecipientIds -> {Absent, "Pending", "Sent"}] :
         \A id \in RecipientIds : f[id] = Absent <=> id \notin present }

MessageStatuses ==
  {"outgoing", "missing", "otherConversation", "incoming", "erased",
   "deletedForEveryone"}

\* the message in memory
Held == [sendState |-> sendState, errors |-> msgErrors]

\* conversationJobQueue.add of a NormalMessage job
Enqueue ==
  \E kind \in ConversationKinds, status \in MessageStatuses :
    \E f \in EnqueuedSendStates(kind) :
      /\ jobState = "none"
      /\ jobState' = "queued"
      /\ conv' = kind
      /\ msgStatus' = status
      /\ sendState' = f
      /\ saved' = [sendState |-> f, errors |-> << >>]
      /\ UNCHANGED << msgErrors, savePending, verificationPending, lastSend,
                      attempt, recoveryVars, concVars, queueVars, protoVars,
                      rangeVars >>

\* the job queue, of a job whose attempt is over: a job that threw is run
\* again unless this was its final attempt
JobAfterAttempt(outcome, isFinalAttempt) ==
  IF outcome = "threw" /\ ~isFinalAttempt THEN "queued" ELSE "done"

\* the job queue runs no job of a conversation reported as stopped by
\* missing verification until the user has dealt with the untrusted
\* recipients
MayDispatch == ~verificationPending

\* the attempt goes on to its next await, or is over. A stretch in which
\* conversationStoppedByMissingVerification was dispatched leaves the
\* conversation reported as stopped
Advance(s) ==
  /\ sendState' = s.message.sendState
  /\ msgErrors' = s.message.errors
  /\ saved' = IF s.store = "written" THEN s.stored ELSE saved
  /\ savePending' = IF s.store = "pending"
                      THEN [pending |-> TRUE, message |-> s.stored]
                      ELSE savePending
  /\ verificationPending' = IF s.run.report.stopped /\ ~attempt.report.stopped
                              THEN TRUE ELSE verificationPending
  /\ IF s.run.pc = "done"
       THEN /\ attempt' = NoRun
            /\ lastSend' = [ran |-> TRUE, bundle |-> s.run.bundle,
                            env |-> s.run.env, status |-> s.run.status,
                            conversation |-> s.run.conversation,
                            before |-> s.run.before,
                            errorsBefore |-> s.run.errorsBefore,
                            savedBefore |-> s.run.savedBefore,
                            report |-> s.run.report]
            /\ jobState' = JobAfterAttempt(s.run.report.outcome,
                                           s.run.bundle.isFinalAttempt)
       ELSE /\ attempt' = s.run
            /\ UNCHANGED << lastSend, jobState >>
  /\ UNCHANGED << msgStatus, conv, recoveryVars, concVars, queueVars, protoVars,
                  rangeVars >>

\* the job queue runs the job: sendNormalMessage is called and asks the
\* message store for the message
Dispatch ==
  /\ jobState = "queued"
  /\ MayDispatch
  /\ ~lastSend.ran
  /\ attempt.pc = "idle"
  /\ \E bundle \in Bundles :
       attempt' = [pc |-> "getMessageById", bundle |-> bundle,
                   env |-> DefaultEnv, status |-> "unread",
                   conversation |-> conv, before |-> sendState,
                   errorsBefore |-> msgErrors, savedBefore |-> saved,
                   report |-> NoReport, originalError |-> NoError,
                   messageSendErrors |-> << >>]
  /\ jobState' = "running"
  /\ UNCHANGED << sendState, msgErrors, saved, savePending, msgStatus, conv,
                  verificationPending, lastSend, recoveryVars, concVars,
                  queueVars, protoVars, rangeVars >>

\* the recipients are resolved and the attempt goes on from there
ResolveRecipients(run) ==
  \E i \in ResolveInputs :
    Advance(resolveRecipients(run, Held, i.contacts, i.accepted))

\* getMessageById resolves. With profile sharing on, the attempt asks for
\* our profile key next
SendGetMessageById ==
  /\ attempt.pc = "getMessageById"
  /\ LET s == checkMessage(attempt, msgStatus, Held) IN
     IF s.run.pc # "profileSharing"
       THEN Advance(s)
       ELSE \/ Advance(Stretch([s.run EXCEPT !.pc = "ourProfileKeyService"],
                               Held, "none", Held))
            \/ ResolveRecipients(s.run)

\* ourProfileKeyService.get() resolves
SendOurProfileKey ==
  /\ attempt.pc = "ourProfileKeyService"
  /\ ResolveRecipients(attempt)

\* getMessageSendData resolves
SendGetMessageSendData ==
  /\ attempt.pc = "getMessageSendData"
  /\ \E reaction \in Reactions :
       Advance(checkReaction(attempt, Held, reaction))

\* messaging.getDataMessage resolves
SendGetDataMessage ==
  /\ attempt.pc = "getDataMessage"
  /\ Advance(startSyncSend(attempt, Held))

\* getSendOptions resolves; the contact of a direct conversation may have
\* become unregistered or blocked while the attempt waited
SendGetSendOptions ==
  /\ attempt.pc = "getSendOptions"
  /\ \E changed \in ContactChanges :
       /\ changed # "none" => attempt.conversation = "direct"
       /\ Advance(startSend(attempt, Held, changed))

\* the promise of the transport call settles
SendInnerPromise ==
  /\ attempt.pc = "innerPromise"
  /\ \E t \in TransportResults(attempt) :
       Advance(innerPromiseSettled(attempt, Held, t.failed, t.error))

\* the promise of message.send or message.sendSyncMessageOnly settles
SendMessageSendPromise ==
  /\ attempt.pc = "messageSendPromise"
  /\ IF attempt.report.transport = "sync"
       THEN \E t \in SyncResults(attempt) :
              Advance(sendPromiseSettled(attempt, Held, t.syncFails, t.error))
       ELSE Advance(sendPromiseSettled(attempt, Held, FALSE, attempt.env.error))

\* handleMultipleSendErrors returns or throws
SendHandleMultipleSendErrors ==
  /\ attempt.pc = "handleMultipleSendErrors"
  /\ Advance(classifierReturned(attempt, Held))

\* the awaited markMessageFailed resolves
SendMarkMessageFailed ==
  /\ attempt.pc = "markMessageFailed"
  /\ Advance(failureSaved(attempt, Held))

\* a saveMessage call nobody awaited completes
SaveCompletes ==
  /\ savePending.pending
  /\ saved' = savePending.message
  /\ savePending' = NoSave
  /\ UNCHANGED << sendState, msgErrors, msgStatus, conv, jobState,
                  verificationPending, lastSend,
                  attempt, recoveryVars, concVars, queueVars, protoVars,
                  rangeVars >>

\* the user erases the message while its job waits or while an attempt is
\* at one of its awaits
Erase ==
  /\ jobState \in {"queued", "running"}
  /\ ~lastSend.ran
  /\ msgStatus = "outgoing"
  /\ msgStatus' = "erased"
  /\ UNCHANGED << sendState, msgErrors, saved, savePending, conv, jobState,
                  verificationPending, lastSend, attempt, recoveryVars,
                  concVars, queueVars, protoVars, rangeVars >>

\* the user deals with the untrusted recipients of the conversation, which
\* is then no longer reported as stopped
ResolveVerification ==
  /\ verificationPending
  /\ verificationPending' = FALSE
  /\ UNCHANGED << sendState, msgErrors, saved, savePending, msgStatus, conv,
                  jobState, lastSend, attempt, recoveryVars, concVars, queueVars,
                  protoVars, rangeVars >>

NextAttempt ==
  /\ lastSend.ran
  /\ lastSend' = NoAttempt
  /\ UNCHANGED << sendState, msgErrors, saved, savePending, msgStatus, conv,
                  jobState, verificationPending, attempt, recoveryVars,
                  concVars, queueVars,
                  protoVars, rangeVars >>

NextSend ==
  \/ Enqueue
  \/ Dispatch
  \/ SendGetMessageById
  \/ SendOurProfileKey
  \/ SendGetMessageSendData
  \/ SendGetDataMessage
  \/ SendGetSendOptions
  \/ SendInnerPromise
  \/ SendMessageSendPromise
  \/ SendHandleMultipleSendErrors
  \/ SendMarkMessageFailed
  \/ SaveCompletes
  \/ Erase
  \/ ResolveVerification
  \/ NextAttempt

SpecSend == Init /\ [][NextSend]_vars

----------------------------------------------------------------------------
(* Properties of sendNormalMessage, under SpecSend. lastSend holds        *)
(* the latest attempt: its inputs, the message before it and its report.   *)

Present(id) == lastSend.before[id] # Absent

\* the contact passes every filter getMessageRecipients applies before it
\* looks at the send state
PassesFilters(id) ==
  \/ isMe(id)
  \/ LET c == lastSend.env.contacts[id] IN
     /\ c.exists
     /\ id \in getMemberConversationIds(lastSend.conversation, lastSend.env.contacts)
     /\ ~c.untrusted /\ ~c.unregistered /\ ~c.blocked /\ c.hasSendTarget

\* the attempt got as far as resolving the recipients and found one untrusted
UntrustedAttempt ==
  /\ lastSend.ran
  /\ lastSend.status = "outgoing"
  /\ lastSend.bundle.shouldContinue
  /\ \E id \in Contacts :
       LET c == lastSend.env.contacts[id] IN
       /\ Present(id)
       /\ c.exists /\ c.untrusted /\ c.hasUuid
       /\ id \in getMemberConversationIds(lastSend.conversation,
                                          lastSend.env.contacts)

\* C3 as stated: with an untrusted recipient the attempt raises before any
\* transport call and no recipient's send state changes, final attempt or not
C3_Original ==
  UntrustedAttempt =>
    /\ lastSend.report.outcome = "threw"
    /\ lastSend.report.transport = "none"
    /\ sendState = lastSend.before

\* C3: with an untrusted recipient the attempt raises before any transport
\* call; no send state changes unless it is the final attempt, where the
\* recipients still Pending are marked Failed and nothing else changes
C3_UntrustedBlocksAttempt ==
  UntrustedAttempt =>
    /\ lastSend.report.outcome = "threw"
    /\ lastSend.report.thrown = ErrUntrusted
    /\ lastSend.report.transport = "none"
    /\ lastSend.report.targets = << >>
    /\ \A id \in RecipientIds :
         sendState[id] =
           IF lastSend.bundle.isFinalAttempt /\ lastSend.before[id] = "Pending"
             THEN "Failed" ELSE lastSend.before[id]

\* a group of three, one untrusted, one Pending and trusted, not the final
\* attempt: raised, nothing sent, nothing changed
C3_Witness ==
  /\ UntrustedAttempt
  /\ lastSend.conversation = "group"
  /\ ~lastSend.bundle.isFinalAttempt
  /\ lastSend.env.contacts["a"].untrusted
  /\ lastSend.env.contacts["b"] = OkContact
  /\ lastSend.before["b"] = "Pending"
  /\ sendState = lastSend.before
  /\ jobState = "queued"
  /\ verificationPending

\* C4 as stated: a recipient Sent when the attempt starts is classified as
\* already sent by getMessageRecipients and is not handed to the transport
C4_Original ==
  (lastSend.ran /\ lastSend.report.resolved) =>
    \A id \in RecipientIds :
      lastSend.before[id] = "Sent" =>
        /\ id \in Range(lastSend.report.recipients.sentRecipientIdentifiers)
        /\ id \notin Range(lastSend.report.targets)

\* C4: a recipient Sent when the attempt starts is never collected for
\* sending, never handed to the transport and stays Sent; it is classified as
\* already sent when it passes the filters that come before the send-state
\* check (known, member or self, trusted, registered, not blocked, has a
\* send target)
C4_SentNeverReattempted ==
  lastSend.ran =>
    \A id \in RecipientIds :
      lastSend.before[id] = "Sent" =>
        /\ id \notin Range(lastSend.report.targets)
        /\ id \notin Range(lastSend.report.recipients.allRecipientIdentifiers)
        /\ id \notin Range(lastSend.report.recipients.recipientIdentifiersWithoutMe)
        /\ sendState[id] = "Sent"
        /\ (lastSend.report.resolved /\ PassesFilters(id))
             => id \in Range(lastSend.report.recipients.sentRecipientIdentifiers)

\* a group send that goes out to b while a, already Sent, is left alone
C4_Witness ==
  /\ lastSend.ran
  /\ lastSend.report.transport = "group"
  /\ lastSend.before["a"] = "Sent"
  /\ lastSend.report.recipients.sentRecipientIdentifiers = << "a" >>
  /\ lastSend.report.targets = << "b" >>

\* C5: in every step each recipient keeps its send state or moves from
\* Pending to Sent or from Pending to Failed; a Sent recipient stays Sent
C5_MonotonicSendState ==
  [][\A id \in RecipientIds :
       /\ sendState[id] = "Sent" => sendState'[id] = "Sent"
       /\ (sendState[id] # Absent /\ sendState'[id] # sendState[id])
            => (sendState[id] = "Pending" /\ sendState'[id] \in {"Sent", "Failed"})
    ]_vars

\* every recipient was Sent, the attempt ran out of time and marked the
\* message failed: the timeout error is on the message, all are still Sent
C5_Witness ==
  /\ lastSend.ran
  /\ lastSend.status = "outgoing"
  /\ ~lastSend.bundle.shouldContinue
  /\ lastSend.conversation = "group"
  /\ \A id \in RecipientIds : lastSend.before[id] = "Sent"
  /\ \A id \in RecipientIds : sendState[id] = "Sent"
  /\ msgErrors = << ErrTimeout >>

\* the attempt awaited a group or direct transport result
SendAwaited ==
  /\ lastSend.ran
  /\ lastSend.report.transport \in {"group", "direct"}

EveryoneSent == \A id \in RecipientIds : sendState[id] \in {Absent, "Sent"}

\* the errors the transport reported, one per failed recipient
PerRecipientErrors ==
  [i \in 1 .. Cardinality(lastSend.report.failed) |-> lastSend.env.error]

\* C8 as stated: after the transport result the attempt is fully successful
\* iff no recipient had an error or everyone is Sent, and otherwise raises an
\* aggregate failure with the cause and the per-recipient errors, final
\* attempt or not
C8_Original ==
  SendAwaited =>
    IF lastSend.report.failed = {} \/ EveryoneSent
      THEN lastSend.report.thrown = NoError
      ELSE /\ lastSend.report.thrown = ErrNotFullySent
           /\ lastSend.report.classifierErrors =
                << ErrNotFullySent >> \o PerRecipientErrors

\* C8: when isFinalAttempt is false the attempt is fully successful iff no
\* recipient had an error or everyone is Sent, and otherwise raises the
\* aggregate failure with the cause and the per-recipient errors; on the
\* final attempt no aggregate failure is raised: the per-recipient errors go
\* onto the message and the failed recipients still Pending become Failed
C8_AggregateFailure ==
  SendAwaited =>
    IF lastSend.bundle.isFinalAttempt
      THEN /\ lastSend.report.thrown = NoError
           /\ lastSend.report.classifierErrors = << >>
           /\ msgErrors = PerRecipientErrors
           /\ \A id \in lastSend.report.failed :
                sendState[id] = IF lastSend.before[id] = "Pending"
                                  THEN "Failed" ELSE lastSend.before[id]
      ELSE IF lastSend.report.failed = {} \/ EveryoneSent
        THEN lastSend.report.thrown = NoError
        ELSE /\ lastSend.report.thrown = ErrNotFullySent
             /\ lastSend.report.toThrow = lastSend.env.error
             /\ lastSend.report.classifierErrors =
                  << ErrNotFullySent >> \o PerRecipientErrors

\* a direct send that fails before the final attempt raises the aggregate
C8_Witness ==
  /\ SendAwaited
  /\ ~lastSend.bundle.isFinalAttempt
  /\ lastSend.report.transport = "direct"
  /\ lastSend.report.failed = {"a"}
  /\ lastSend.report.thrown = ErrNotFullySent
  /\ lastSend.report.classifierErrors = << ErrNotFullySent, ErrNetwork >>
  /\ lastSend.report.outcome = "threw"

\* a group attempt before the final one in which the transport sent to some
\* recipients and failed for others
PartialGroupFailure ==
  /\ lastSend.ran
  /\ lastSend.report.transport = "group"
  /\ ~lastSend.bundle.isFinalAttempt
  /\ lastSend.report.failed # {}
  /\ Range(lastSend.report.targets) \ lastSend.report.failed # {}

\* C9: after a partial group failure before the final attempt the recipients
\* sent to are Sent, the failed ones are not; the errors are in the attempt's
\* own list and given to the classifier with the cause; unless the classifier
\* gives up the failed recipients keep their state, no error is on the
\* message in memory or as saved, and the attempt throws so the job is run
\* again. In every attempt, errors are on the message afterwards only if it
\* was the final attempt, the classifier gave up or the attempt refused to
\* send
C9_PartialGroupFailure ==
  /\ PartialGroupFailure =>
       /\ \A id \in Range(lastSend.report.targets) \ lastSend.report.failed :
            sendState[id] = "Sent"
       /\ \A id \in lastSend.report.failed : sendState[id] # "Sent"
       /\ lastSend.report.messageSendErrors = PerRecipientErrors
       /\ lastSend.report.thrown = ErrNotFullySent
       /\ lastSend.report.classifierErrors =
            << ErrNotFullySent >> \o PerRecipientErrors
       /\ saved.sendState = sendState
       /\ ~lastSend.report.gaveUp =>
            /\ \A id \in lastSend.report.failed :
                 sendState[id] = lastSend.before[id]
            /\ msgErrors = << >>
            /\ saved.errors = << >>
            /\ lastSend.report.outcome = "threw"
            /\ jobState = "queued"
  /\ (lastSend.ran /\ lastSend.report.transport # "none" /\ msgErrors # << >>) =>
       (lastSend.bundle.isFinalAttempt \/ lastSend.report.gaveUp)

\* group of a and b, a sent, b failed with a network error, not final
C9_Witness ==
  /\ PartialGroupFailure
  /\ lastSend.report.targets = << "a", "b" >>
  /\ lastSend.report.failed = {"b"}
  /\ lastSend.env.error = ErrNetwork
  /\ sendState["a"] = "Sent"
  /\ sendState["b"] = "Pending"
  /\ sendState[Me] = "Sent"
  /\ msgErrors = << >>
  /\ jobState = "queued"

\* the attempt ran out of time and so marked the message failed and saved it
TimedOutAndSaved ==
  /\ lastSend.report.transport = "none"
  /\ lastSend.report.outcome = "returned"
  /\ msgErrors = << ErrTimeout >> \o lastSend.errorsBefore
  /\ \A id \in RecipientIds :
       sendState[id] = IF lastSend.before[id] = "Pending"
                         THEN "Failed" ELSE lastSend.before[id]
  /\ saved = [sendState |-> sendState, errors |-> msgErrors]
  /\ ~savePending.pending

\* C10 as stated: run with shouldContinue false, the attempt makes no
\* transport call, marks the message failed with the timeout error and has
\* saved that when it returns
C10_Original == (lastSend.ran /\ ~lastSend.bundle.shouldContinue) => TimedOutAndSaved

\* C10: run with shouldContinue false on a message that is found, belongs to
\* the conversation, is outgoing and not erased, the attempt makes no
\* transport call, marks the message failed with the timeout error and has
\* saved that when it returns; on any other message it returns at once,
\* leaving the message as it is
C10_OutOfTime ==
  (lastSend.ran /\ ~lastSend.bundle.shouldContinue) =>
    IF lastSend.status = "outgoing"
      THEN TimedOutAndSaved
      ELSE /\ lastSend.report.transport = "none"
           /\ lastSend.report.outcome = "returned"
           /\ sendState = lastSend.before
           /\ msgErrors = lastSend.errorsBefore
           /\ saved = lastSend.savedBefore

\* a direct message still Pending runs out of time and is failed and saved
C10_Witness ==
  /\ lastSend.ran
  /\ ~lastSend.bundle.shouldContinue
  /\ lastSend.status = "outgoing"
  /\ lastSend.before["a"] = "Pending"
  /\ sendState["a"] = "Failed"
  /\ msgErrors = << ErrTimeout >>
  /\ saved.sendState["a"] = "Failed"
  /\ saved.errors = << ErrTimeout >>
  /\ jobState = "done"

\* the job has ended for an outgoing message with its final attempt or with
\* the time budget used up
LastAttemptMade ==
  /\ lastSend.ran
  /\ lastSend.status = "outgoing"
  /\ (lastSend.bundle.isFinalAttempt \/ ~lastSend.bundle.shouldContinue)

NobodyPending == \A id \in RecipientIds : sendState[id] # "Pending"

\* the message as held in memory is what was saved, or is being saved
SavedOrBeingSaved ==
  LET held == [sendState |-> sendState, errors |-> msgErrors] IN
  \/ saved = held
  \/ savePending.pending /\ savePending.message = held

\* the attempt marked the message failed: the classifier gave up, the time
\* budget was used up, or the attempt refused to send
MarkedFailed ==
  \/ lastSend.report.gaveUp
  \/ lastSend.report.path \in {"ranOutOfTime", "cannotReact", "noValidRecipients",
                               "notAccepted", "unregistered", "blocked"}

\* C11 as stated: after the final attempt, or once the time budget is used
\* up, no recipient of the message is Pending, and the message is saved with
\* its errors
C11_Original ==
  LastAttemptMade =>
    /\ jobState = "done"
    /\ NobodyPending
    /\ saved = [sendState |-> sendState, errors |-> msgErrors]

\* C11: after the final attempt, or once the time budget is used up, the job
\* has ended. If the attempt marked the message failed, no recipient is
\* Pending, every recipient Pending before is Failed and the message with its
\* errors is saved or being saved. Otherwise the only recipients still Pending
\* are ones this attempt did not hand to the transport: our own entry, or a
\* contact the recipient resolver leaves out (unknown, not a member,
\* unregistered, blocked, no send target)
C11_NoPendingAfterGiveUp ==
  LastAttemptMade =>
    /\ jobState = "done"
    /\ IF MarkedFailed
         THEN /\ NobodyPending
              /\ \A id \in RecipientIds :
                   lastSend.before[id] = "Pending" => sendState[id] = "Failed"
              /\ SavedOrBeingSaved
         ELSE \A id \in RecipientIds :
                sendState[id] = "Pending" =>
                  /\ lastSend.before[id] = "Pending"
                  /\ id \notin Range(lastSend.report.targets)
                  /\ (isMe(id) \/ ~PassesFilters(id))

\* the final attempt finds b untrusted: the classifier gives up, a and b go
\* from Pending to Failed, and the message is saved with that
C11_Witness ==
  /\ LastAttemptMade
  /\ lastSend.bundle.isFinalAttempt
  /\ lastSend.report.path = "untrusted"
  /\ lastSend.report.gaveUp
  /\ lastSend.before["a"] = "Pending"
  /\ lastSend.before["b"] = "Pending"
  /\ sendState["a"] = "Failed"
  /\ sendState["b"] = "Failed"
  /\ saved.sendState = sendState
  /\ jobState = "done"

\* the recipient resolver found nobody but us left to send to, and somebody
\* already sent to or a Note to Self conversation
NothingLeftToSend ==
  /\ lastSend.ran
  /\ lastSend.report.resolved
  /\ lastSend.report.recipients.recipientIdentifiersWithoutMe = << >>
  /\ \/ lastSend.report.recipients.sentRecipientIdentifiers # << >>
     \/ isMe(lastSend.conversation)

\* no recipient became Failed and no error was put on the message
NotMarkedFailed ==
  /\ \A id \in RecipientIds :
       sendState[id] = "Failed" => lastSend.before[id] = "Failed"
  /\ \/ msgErrors = << >>
     \/ msgErrors = lastSend.errorsBefore

\* C12 as stated: with nobody left to send to, and somebody already sent to
\* or a Note to Self conversation, the attempt makes one sync send and no
\* group or direct send, returns, and does not mark the message failed
C12_Original ==
  NothingLeftToSend =>
    /\ lastSend.report.transport = "sync"
    /\ lastSend.report.outcome = "returned"
    /\ NotMarkedFailed

\* C12: the attempt takes the sync-only path exactly when the resolver found
\* no untrusted recipient, our own entry still to be sent, no story reaction
\* that is refused or lacks its story, nobody else left to send to, and a
\* Note to Self, a group or somebody already sent to. It then makes one sync
\* send and no group or direct send. When the sync send succeeds the attempt
\* returns, our own entry is Sent and the message is not marked failed; when
\* it fails the error goes to the retry classifier, which marks the message
\* failed on the final attempt or when the server asked to stop. With our own
\* entry already Sent the attempt returns without any send
C12_SyncOnly ==
  LET r == lastSend.report.recipients
      rep == lastSend.report
  IN
  /\ (lastSend.ran /\ rep.path = "syncOnly") <=>
       /\ lastSend.ran
       /\ rep.resolved
       /\ r.untrustedUuids = << >>
       /\ r.allRecipientIdentifiers # << >>
       /\ lastSend.env.reaction \in {"none", "allowed"}
       /\ r.recipientIdentifiersWithoutMe = << >>
       /\ \/ lastSend.conversation \in {"me", "group"}
          \/ r.sentRecipientIdentifiers # << >>
  /\ (lastSend.ran /\ rep.path = "syncOnly") =>
       /\ rep.transport = "sync"
       /\ rep.targets = << >>
       /\ IF ~lastSend.env.syncFails
            THEN /\ rep.outcome = "returned"
                 /\ rep.thrown = NoError
                 /\ sendState = [lastSend.before EXCEPT ![Me] = "Sent"]
                 /\ NotMarkedFailed
            ELSE /\ rep.thrown = lastSend.env.error
                 /\ rep.gaveUp <=> (lastSend.bundle.isFinalAttempt
                                     \/ lastSend.env.error = ErrServerStop)
                 /\ rep.gaveUp => sendState[Me] = "Failed"
                 /\ ~rep.gaveUp => sendState = lastSend.before
                 /\ rep.outcome = (IF lastSend.env.error = ErrServerStop
                                     THEN "returned" ELSE "threw")
  /\ (NothingLeftToSend /\ r.untrustedUuids = << >>
        /\ r.allRecipientIdentifiers = << >>) =>
       /\ rep.path = "alreadySent"
       /\ rep.transport = "none"
       /\ rep.outcome = "returned"
       /\ sendState = lastSend.before
       /\ msgErrors = lastSend.errorsBefore

\* a direct message already sent to a, our own entry still Pending: one sync
\* send, our own entry becomes Sent, nothing is marked failed
C12_Witness ==
  /\ NothingLeftToSend
  /\ lastSend.conversation = "direct"
  /\ lastSend.before["a"] = "Sent"
  /\ lastSend.before[Me] = "Pending"
  /\ lastSend.report.path = "syncOnly"
  /\ lastSend.report.transport = "sync"
  /\ lastSend.report.outcome = "returned"
  /\ sendState[Me] = "Sent"
  /\ msgErrors = << >>
  /\ jobState = "done"

RefusalPaths == {"noValidRecipients", "notAccepted", "unregistered", "blocked"}

\* the attempt resolved the recipients of a direct conversation whose
\* contact, still Pending, has not accepted the conversation, is unregistered
\* or is blocked
DirectRecipientRefusable ==
  /\ lastSend.ran
  /\ lastSend.report.resolved
  /\ lastSend.conversation = "direct"
  /\ lastSend.before["a"] = "Pending"
  /\ \/ ~lastSend.env.accepted
     \/ lastSend.env.contacts["a"].unregistered
     \/ lastSend.env.contacts["a"].blocked

\* the attempt made no transport call, marked the message failed and
\* returned, and the retry classifier was not called
RefusedTerminally ==
  /\ lastSend.report.transport = "none"
  /\ lastSend.report.targets = << >>
  /\ lastSend.report.classifierErrors = << >>
  /\ lastSend.report.thrown = NoError
  /\ lastSend.report.outcome = "returned"
  /\ jobState = "done"
  /\ NobodyPending
  /\ \A id \in RecipientIds :
       lastSend.before[id] = "Pending" => sendState[id] = "Failed"
  /\ Len(msgErrors) = Len(lastSend.errorsBefore) + 1

\* C13 as stated: for a direct conversation whose contact, still Pending,
\* has not accepted, is unregistered or is blocked, the attempt makes no
\* transport call and marks the message failed without the retry classifier,
\* final attempt or not
C13_Original == DirectRecipientRefusable => RefusedTerminally

\* C13: an attempt that refuses to send makes no transport call, marks the
\* message failed in that attempt (save not awaited) and returns without the
\* retry classifier, final attempt or not. For a direct conversation whose
\* contact, still Pending, has not accepted, is unregistered or is blocked,
\* the attempt raises to the retry classifier when the contact is untrusted,
\* returns without marking anything when the resolver leaves the contact out
\* and our own entry is Sent, fails a story reaction as for any conversation,
\* and otherwise refuses: with the not-accepted error when the resolver kept
\* the contact, with the no-valid-recipients error when it left the contact
\* out. The unregistered and blocked refusals of the direct path are reached
\* only for a contact that was neither when the recipients were resolved and
\* has become so while the attempt waited for the send options
C13_DirectRefusal ==
  LET r == lastSend.report.recipients
      rep == lastSend.report
  IN
  /\ (lastSend.ran /\ rep.path \in RefusalPaths) =>
       /\ RefusedTerminally
       /\ msgErrors[1] = (IF rep.path = "notAccepted" THEN ErrNotAccepted
                          ELSE IF rep.path = "unregistered" THEN ErrUnregistered
                          ELSE IF rep.path = "blocked" THEN ErrBlocked
                          ELSE ErrNoValidRecipients)
       /\ SavedOrBeingSaved
  /\ DirectRecipientRefusable =>
       /\ rep.transport = "none"
       /\ rep.path =
            (IF r.untrustedUuids # << >> THEN "untrusted"
             ELSE IF r.allRecipientIdentifiers = << >> THEN "alreadySent"
             ELSE IF lastSend.env.reaction = "noStory" THEN "reactionWithoutStory"
             ELSE IF lastSend.env.reaction = "refused" THEN "cannotReact"
             ELSE IF r.recipientIdentifiersWithoutMe # << >> THEN "notAccepted"
             ELSE "noValidRecipients")
       /\ rep.path = "alreadySent" =>
            (sendState = lastSend.before /\ msgErrors = lastSend.errorsBefore)
       /\ rep.path = "untrusted" => rep.classifierErrors = << ErrUntrusted >>
  /\ (lastSend.ran /\ rep.path \in {"unregistered", "blocked"}) =>
       /\ lastSend.conversation = "direct"
       /\ lastSend.env.accepted
       /\ ~lastSend.env.contacts["a"].unregistered
       /\ ~lastSend.env.contacts["a"].blocked
       /\ lastSend.env.changed = rep.path
       /\ r.recipientIdentifiersWithoutMe = << "a" >>
  /\ (lastSend.ran /\ lastSend.env.changed = "none") =>
       rep.path \notin {"unregistered", "blocked"}

\* a direct message to a contact who has not accepted, not the final attempt:
\* nothing is sent, a is Failed with the not-accepted error, the job has ended
C13_Witness ==
  /\ DirectRecipientRefusable
  /\ ~lastSend.env.accepted
  /\ ~lastSend.bundle.isFinalAttempt
  /\ lastSend.before["a"] = "Pending"
  /\ lastSend.report.path = "notAccepted"
  /\ lastSend.report.transport = "none"
  /\ sendState["a"] = "Failed"
  /\ msgErrors = << ErrNotAccepted >>
  /\ jobState = "done"

\* the attempt got as far as resolving the recipients
ResolvedAttempt ==
  /\ lastSend.ran
  /\ lastSend.report.resolved

\* a known contact on the message that has left the conversation, is blocked
\* or is unregistered when the attempt runs
ExcludedContact(id) ==
  LET c == lastSend.env.contacts[id] IN
  /\ id \in Contacts
  /\ Present(id)
  /\ c.exists
  /\ \/ id \notin getMemberConversationIds(lastSend.conversation,
                                            lastSend.env.contacts)
     \/ c.blocked
     \/ c.unregistered

\* C24 as stated: a recipient that has left the conversation, is blocked or is
\* unregistered is no send target and is not reported as untrusted
C24_Original ==
  ResolvedAttempt =>
    \A id \in Contacts :
      ExcludedContact(id) =>
        /\ id \notin Range(lastSend.report.recipients.allRecipientIdentifiers)
        /\ id \notin Range(lastSend.report.targets)
        /\ id \notin Range(lastSend.report.recipients.untrustedUuids)

\* C24: every attempt resolves the recipients from the members and the send
\* states it finds: the recipients to send to are those on the message that
\* pass the filters and are not Sent. A recipient that has left the
\* conversation, is blocked or is unregistered is never a send target; it is
\* reported as untrusted, which fails the attempt, exactly when it is still a
\* member and is untrusted as well, trust being looked at before blocked and
\* unregistered
C24_ExcludedRecipients ==
  ResolvedAttempt =>
    /\ lastSend.report.recipients.allRecipientIdentifiers =
         SelectSeq(SendStateOrder,
                   LAMBDA id : /\ Present(id)
                               /\ PassesFilters(id)
                               /\ lastSend.before[id] # "Sent")
    /\ \A id \in Contacts :
         ExcludedContact(id) =>
           /\ id \notin Range(lastSend.report.recipients.allRecipientIdentifiers)
           /\ id \notin Range(lastSend.report.targets)
           /\ id \in Range(lastSend.report.recipients.untrustedUuids) <=>
                (/\ id \in getMemberConversationIds(lastSend.conversation,
                                                     lastSend.env.contacts)
                 /\ lastSend.env.contacts[id].untrusted
                 /\ lastSend.env.contacts[id].hasUuid)
           /\ id \in Range(lastSend.report.recipients.untrustedUuids) =>
                lastSend.report.outcome = "threw"

\* a was Pending on the message and has left the group since: the attempt
\* sends to b alone and returns, a is still Pending
C24_Witness ==
  /\ ResolvedAttempt
  /\ lastSend.conversation = "group"
  /\ lastSend.before["a"] = "Pending"
  /\ ~lastSend.env.contacts["a"].member
  /\ lastSend.report.targets = << "b" >>
  /\ lastSend.report.recipients.untrustedUuids = << >>
  /\ lastSend.report.outcome = "returned"
  /\ sendState["a"] = "Pending"
  /\ sendState["b"] = "Sent"

\* a member of the group that is on the message and is blocked or
\* unregistered when the attempt runs
TerminalMember(id) ==
  LET c == lastSend.env.contacts[id] IN
  /\ id \in Contacts
  /\ Present(id)
  /\ c.exists
  /\ c.member
  /\ c.blocked \/ c.unregistered

\* the attempt issued a group send while some member was blocked or
\* unregistered
GroupSendWithTerminalMember ==
  /\ lastSend.ran
  /\ lastSend.report.transport = "group"
  /\ \E id \in Contacts : TerminalMember(id)

\* C26: in a group send with a blocked or unregistered member that member is
\* not sent to and every other recipient that is Pending and passes the
\* filters is; when the transport fails for nobody the attempt returns, is
\* not given up, every recipient sent to is Sent and the member left out is
\* in the state it was in
C26_TerminalRecipientAlone ==
  GroupSendWithTerminalMember =>
    /\ \A id \in Contacts :
         TerminalMember(id) => id \notin Range(lastSend.report.targets)
    /\ \A id \in Contacts :
         (Present(id) /\ PassesFilters(id) /\ lastSend.before[id] = "Pending")
           => id \in Range(lastSend.report.targets)
    /\ lastSend.report.failed = {} =>
         /\ lastSend.report.outcome = "returned"
         /\ ~lastSend.report.gaveUp
         /\ \A id \in Range(lastSend.report.targets) : sendState[id] = "Sent"
         /\ \A id \in Contacts :
              TerminalMember(id) => sendState[id] = lastSend.before[id]
    /\ lastSend.report.outcome = "threw" =>
         lastSend.report.failed \cap Range(lastSend.report.targets) # {}

\* a is blocked and Pending, b is sent to and becomes Sent: the attempt
\* returns and a is still Pending
C26_Witness ==
  /\ GroupSendWithTerminalMember
  /\ lastSend.env.contacts["a"].blocked
  /\ lastSend.before["a"] = "Pending"
  /\ lastSend.before["b"] = "Pending"
  /\ ~lastSend.bundle.isFinalAttempt
  /\ lastSend.report.targets = << "b" >>
  /\ lastSend.report.outcome = "returned"
  /\ sendState["b"] = "Sent"
  /\ sendState["a"] = "Pending"

\* C27: on every path on which an attempt gives up on the message (out of
\* time, no valid recipients, conversation not accepted, unregistered,
\* blocked, story reaction not possible, the classifier giving up), the
\* message with its Failed states and its errors is in the message store when
\* the attempt has returned
C27_GiveUpDurable ==
  (lastSend.ran /\ MarkedFailed) =>
    /\ saved = [sendState |-> sendState, errors |-> msgErrors]
    /\ ~savePending.pending

\* the attempt refused to send to a conversation that was not accepted and
\* has returned, the job is over, and the store still holds the message with
\* its recipient Pending and without the error
C27_Witness ==
  /\ lastSend.ran
  /\ lastSend.report.path = "notAccepted"
  /\ lastSend.report.outcome = "returned"
  /\ jobState = "done"
  /\ sendState["a"] = "Failed"
  /\ msgErrors = << ErrNotAccepted >>
  /\ saved.sendState["a"] = "Pending"
  /\ saved.errors = << >>
  /\ savePending.pending

----------------------------------------------------------------------------
(* Properties of sendNormalMessage under SpecSend, continued *)

\* the step is an attempt of sendNormalMessage
AttemptStep == ~lastSend.ran /\ lastSend'.ran

\* the step starts an attempt of sendNormalMessage
AttemptStarts == attempt.pc = "idle" /\ attempt'.pc # "idle"

\* in this step a running attempt finds untrusted recipients and throws
UntrustedThrow ==
  /\ attempt.pc # "idle"
  /\ attempt'.pc # "idle"
  /\ attempt.report.path # "untrusted"
  /\ attempt'.report.path = "untrusted"

C30_ErasedShortCircuits ==
  (lastSend.ran /\ lastSend.status # "outgoing") =>
    /\ lastSend.report.path \in
         {"notFound", "conversationMismatch", "notOutgoing", "erased"}
    /\ lastSend.report.outcome = "returned"
    /\ ~lastSend.report.resolved
    /\ lastSend.report.transport = "none"
    /\ ~lastSend.report.gaveUp
    /\ ~lastSend.report.saveAwaited
    /\ ~lastSend.report.saveUnawaited
    /\ sendState = lastSend.before
    /\ msgErrors = lastSend.errorsBefore
    /\ \A id \in RecipientIds : sendState[id] # "Failed"
    /\ saved = lastSend.savedBefore
    /\ ~savePending.pending
    /\ jobState = "done"

\* the final attempt, out of time, on a group message erased while its job
\* waited: a and b stay Pending and the message carries no error
C30_Witness ==
  /\ lastSend.ran
  /\ lastSend.status = "erased"
  /\ lastSend.conversation = "group"
  /\ lastSend.bundle.isFinalAttempt
  /\ ~lastSend.bundle.shouldContinue
  /\ lastSend.report.path = "erased"
  /\ sendState["a"] = "Pending"
  /\ sendState["b"] = "Pending"
  /\ msgErrors = << >>
  /\ jobState = "done"

\* the recipient is on the message, is known, is a member of the conversation
\* and is untrusted, and its conversation has no UUID
UntrustedWithoutUuid(id) ==
  /\ id \in Contacts
  /\ lastSend.before[id] # Absent
  /\ lastSend.env.contacts[id].exists
  /\ id \in getMemberConversationIds(lastSend.conversation,
                                       lastSend.env.contacts)
  /\ lastSend.env.contacts[id].untrusted
  /\ ~lastSend.env.contacts[id].hasUuid

\* C38: an untrusted recipient without UUID is left out of every list the
\* attempt resolves and is no send target; when no recipient with a UUID is
\* untrusted the attempt is not stopped for untrusted recipients, and the
\* recipients it sends to are the others that pass the filters
C38_UntrustedWithoutUuidSkipped ==
  (lastSend.ran /\ lastSend.report.resolved) =>
    \A id \in Contacts :
      UntrustedWithoutUuid(id) =>
        LET r == lastSend.report.recipients IN
        /\ id \notin Range(r.untrustedUuids)
        /\ id \notin Range(r.allRecipientIdentifiers)
        /\ id \notin Range(r.recipientIdentifiersWithoutMe)
        /\ id \notin Range(r.sentRecipientIdentifiers)
        /\ id \notin Range(lastSend.report.targets)
        /\ (lastSend.before[id] # "Sent") => sendState[id] # "Sent"
        /\ (\A o \in Contacts \ {id} :
              ~(lastSend.env.contacts[o].untrusted
                /\ lastSend.env.contacts[o].hasUuid))
             => /\ r.untrustedUuids = << >>
                /\ lastSend.report.path # "untrusted"
                /\ ~lastSend.report.stopped

\* a group message Pending for a and b, a untrusted and without UUID, b
\* healthy: the attempt sends to b alone, b is Sent and a still Pending
C38_Witness ==
  /\ lastSend.ran
  /\ lastSend.conversation = "group"
  /\ UntrustedWithoutUuid("a")
  /\ lastSend.before["a"] = "Pending"
  /\ lastSend.before["b"] = "Pending"
  /\ lastSend.env.contacts["b"] = OkContact
  /\ lastSend.report.path = "group"
  /\ lastSend.report.targets = << "b" >>
  /\ lastSend.report.outcome = "returned"
  /\ sendState["b"] = "Sent"
  /\ sendState["a"] = "Pending"

\* the attempt ran in a direct conversation, found nobody untrusted, our own
\* entry still to be sent, nobody else to send to and nobody sent to before
OnlySelfLeftInDirect ==
  /\ lastSend.ran
  /\ lastSend.report.resolved
  /\ lastSend.conversation = "direct"
  /\ lastSend.report.recipients.untrustedUuids = << >>
  /\ lastSend.report.recipients.allRecipientIdentifiers = << Me >>
  /\ lastSend.report.recipients.recipientIdentifiersWithoutMe = << >>
  /\ lastSend.report.recipients.sentRecipientIdentifiers = << >>

\* C39 as stated: in a direct conversation with our own entry still to be
\* sent, nobody else eligible and nobody sent to before, the attempt makes no
\* send and marks the message failed with "No valid recipients"
C39_Original ==
  OnlySelfLeftInDirect =>
    /\ lastSend.report.transport = "none"
    /\ msgErrors = << ErrNoValidRecipients >> \o lastSend.errorsBefore

\* C39: in a direct conversation with our own entry still to be sent, nobody
\* else eligible and nobody sent to before, the attempt makes no send, not
\* even a sync send. Unless the message is a story reaction that is refused
\* or lacks its story, which fails it as in any conversation, the attempt
\* marks the message failed with "No valid recipients" and returns; a sync
\* send is made only in a Note to Self conversation, in a group, or when
\* somebody was sent to before
C39_NoValidRecipients ==
  /\ OnlySelfLeftInDirect =>
       /\ lastSend.report.transport = "none"
       /\ lastSend.report.targets = << >>
       /\ lastSend.report.path =
            (IF lastSend.env.reaction = "noStory" THEN "reactionWithoutStory"
             ELSE IF lastSend.env.reaction = "refused" THEN "cannotReact"
             ELSE "noValidRecipients")
       /\ lastSend.report.path = "cannotReact" =>
            msgErrors = << ErrCannotReact >> \o lastSend.errorsBefore
       /\ lastSend.report.path = "noValidRecipients" =>
            /\ lastSend.report.outcome = "returned"
            /\ sendState = markFailed(lastSend.before)
            /\ sendState[Me] = "Failed"
            /\ msgErrors = << ErrNoValidRecipients >> \o lastSend.errorsBefore
            /\ jobState = "done"
  /\ (lastSend.ran /\ lastSend.report.transport = "sync") =>
       \/ lastSend.conversation \in {"me", "group"}
       \/ lastSend.report.recipients.sentRecipientIdentifiers # << >>

\* a direct message Pending for a and for us, a blocked: nothing is sent,
\* both entries are Failed and the message carries "No valid recipients"
C39_Witness ==
  /\ OnlySelfLeftInDirect
  /\ lastSend.before["a"] = "Pending"
  /\ lastSend.before[Me] = "Pending"
  /\ lastSend.env.contacts["a"].blocked
  /\ ~lastSend.bundle.isFinalAttempt
  /\ lastSend.report.transport = "none"
  /\ sendState["a"] = "Failed"
  /\ sendState[Me] = "Failed"
  /\ msgErrors = << ErrNoValidRecipients >>

----------------------------------------------------------------------------
(* types/BodyRange: insertRange builds the tree of nested ranges a message  *)
(* body is rendered from. A range is [start, length, id], id standing for   *)
(* what else the range carries (its style, mention or link); a node of the  *)
(* tree is a range with its nested ranges, whose starts are relative to it. *)

TextLen == 4      \* positions of the message body ranges can cover
MaxInserts == 3   \* ranges inserted into one tree (SpecTree)
MaxLinks == 2     \* links found in one message text (SpecTree)

\* faulty Piece: the piece keeps the start of the range it is cut from
PieceKeepsStart(range, start, length) ==
  [start |-> range.start, length |-> length, id |-> range.id]

\* faulty Node: the node keeps the length of the range it is cut from
NodeKeepsLength(range, start, length, ranges) ==
  [start |-> start, length |-> range.length, id |-> range.id, ranges |-> ranges]

\* { ...range, start, length }
Piece(range, start, length) ==
  [start |-> start, length |-> length, id |-> range.id]

\* { ...range, start, length, ranges }
Node(range, start, length, ranges) ==
  [start |-> start, length |-> length, id |-> range.id, ranges |-> ranges]

\* faulty RangeCase: the tests for the ends of current are strict
RangeCaseStrict(range, current) ==
  LET rangeEnd == range.start + range.length
      currentEnd == current.start + current.length
  IN
  IF rangeEnd <= current.start THEN "before"
  ELSE IF range.start >= currentEnd THEN "after"
  ELSE IF range.start > current.start /\ rangeEnd < currentEnd
    THEN "contained"
  ELSE IF range.start < current.start /\ rangeEnd > currentEnd
    THEN "contains"
  ELSE IF range.start < current.start /\ rangeEnd <= currentEnd
    THEN "intersectsBeginning"
  ELSE IF range.start >= current.start /\ rangeEnd > currentEnd
    THEN "intersectsEnding"
  ELSE "unhandled"

\* the chain of tests insertRange makes on the range and the first node of
\* the tree, in the order of the code; "unhandled" is the final throw
RangeCase(range, current) ==
  LET rangeEnd == range.start + range.length
      currentEnd == current.start + current.length
  IN
  IF rangeEnd <= current.start THEN "before"
  ELSE IF range.start >= currentEnd THEN "after"
  ELSE IF range.start >= current.start /\ rangeEnd <= currentEnd
    THEN "contained"
  ELSE IF range.start < current.start /\ rangeEnd > currentEnd
    THEN "contains"
  ELSE IF range.start < current.start /\ rangeEnd <= currentEnd
    THEN "intersectsBeginning"
  ELSE IF range.start >= current.start /\ rangeEnd > currentEnd
    THEN "intersectsEnding"
  ELSE "unhandled"

RECURSIVE insertRange(_, _)
\* insertRange(range, rangeTree); the result of a call that throws is not
\* used, see insertRangeThrows
insertRange(range, rangeTree) ==
  IF rangeTree = << >>
    THEN << Node(range, range.start, range.length, << >>) >>
  ELSE
    LET current == Head(rangeTree)
        rest == Tail(rangeTree)
        rangeEnd == range.start + range.length
        currentEnd == current.start + current.length
        case == RangeCase(range, current)
        with(ranges) == [current EXCEPT !.ranges = ranges]
    IN
    IF case = "before"
      THEN << Node(range, range.start, range.length, << >>) >> \o rangeTree
    ELSE IF case = "after"
      THEN << current >> \o insertRange(range, rest)
    ELSE IF case = "contained"
      THEN << with(insertRange(
                     Piece(range, range.start - current.start, range.length),
                     current.ranges)) >> \o rest
    ELSE IF case = "contains"
      THEN << Node(range, range.start, current.start - range.start, << >>),
              with(insertRange(Piece(range, 0, current.length),
                               current.ranges)) >>
           \o insertRange(Piece(range, currentEnd, rangeEnd - currentEnd), rest)
    ELSE IF case = "intersectsBeginning"
      THEN << Node(range, range.start, current.start - range.start, << >>),
              with(insertRange(
                     Piece(range, 0,
                           range.length - (current.start - range.start)),
                     current.ranges)) >> \o rest
    ELSE IF case = "intersectsEnding"
      THEN << with(insertRange(
                     Piece(range, range.start - current.start,
                           currentEnd - range.start),
                     current.ranges)) >>
           \o insertRange(
                Piece(range, currentEnd,
                      range.length - (currentEnd - range.start)),
                rest)
    ELSE << >>

RECURSIVE insertRangeCalls(_, _)
\* the calls of insertRange one call leads to, itself included, each with
\* the range it is given and the first node of its tree (NoRange's id for an
\* empty tree), in the order they are made; the calls stop at a throw
insertRangeCalls(range, rangeTree) ==
  IF rangeTree = << >>
    THEN << [range |-> range, current |-> NoRange, case |-> "empty"] >>
  ELSE
    LET current == Head(rangeTree)
        rest == Tail(rangeTree)
        rangeEnd == range.start + range.length
        currentEnd == current.start + current.length
        case == RangeCase(range, current)
        this == << [range |-> range,
                    current |-> Piece(current, current.start, current.length),
                    case |-> case] >>
    IN
    IF case = "after"
      THEN this \o insertRangeCalls(range, rest)
    ELSE IF case = "contained"
      THEN this \o insertRangeCalls(
                     Piece(range, range.start - current.start, range.length),
                     current.ranges)
    ELSE IF case = "contains"
      THEN this
           \o insertRangeCalls(Piece(range, 0, current.length), current.ranges)
           \o insertRangeCalls(Piece(range, currentEnd, rangeEnd - currentEnd),
                               rest)
    ELSE IF case = "intersectsBeginning"
      THEN this \o insertRangeCalls(
                     Piece(range, 0,
                           range.length - (current.start - range.start)),
                     current.ranges)
    ELSE IF case = "intersectsEnding"
      THEN this
           \o insertRangeCalls(
                Piece(range, range.start - current.start,
                      currentEnd - range.start),
                current.ranges)
           \o insertRangeCalls(
                Piece(range, currentEnd,
                      range.length - (currentEnd - range.start)),
                rest)
    ELSE this

\* the call ends in `throw new Error('unhandled range')`
insertRangeThrows(range, rangeTree) ==
  \E k \in DOMAIN insertRangeCalls(range, rangeTree) :
    insertRangeCalls(range, rangeTree)[k].case = "unhandled"

\* the ranges a message can carry: any start and length within its body,
\* zero lengths included
BodyRanges ==
  { r \in [start : 0 .. TextLen, length : 0 .. TextLen] :
      r.start + r.length <= TextLen }

----------------------------------------------------------------------------
(* SpecTree: MessageTextRenderer folds the ranges of a message into a tree. *)
(* The fold starts from the links found in the message text, each a node    *)
(* without nested ranges, and from the empty tree when the text has no link *)
(* or links are disabled.                                                   *)

RECURSIVE LinksFrom(_, _)
\* the lists of at most n links that lie at or after position `from`:
\* linkify.match scans the text from left to right, so the matches come in
\* the order of their places, none is empty and none reaches into the next
LinksFrom(n, from) ==
  IF n = 0 THEN {<< >>}
  ELSE {<< >>} \cup
       UNION { UNION { { << [start |-> st, length |-> en - st, id |-> 10 + n] >>
                           \o rest : rest \in LinksFrom(n - 1, en) } :
                       en \in (st + 1) .. TextLen } :
               st \in from .. (TextLen - 1) }

\* disableLinks ? [] : extractLinks(messageText), for every message text:
\* { start: match.index, length: match.lastIndex - match.index, url }
extractLinks == LinksFrom(MaxLinks, 0)

\* links.map(b => ({ ...b, ranges: [] })), the tree the reduce starts from
LinkNodes(links) ==
  [k \in DOMAIN links |->
     Node(links[k], links[k].start, links[k].length, << >>)]

\* MessageTextRenderer is called for a message: the links of its text are
\* extracted and the reduce over its ranges is about to start from them
MessageTextRenderer ==
  /\ \E links \in extractLinks :
       /\ tree' = LinkNodes(links)
       /\ ins' = [NoInsert EXCEPT !.rendering = TRUE, !.links = links]
  /\ UNCHANGED << sorting, recoveryVars, concVars, sendVars, queueVars,
                  protoVars >>

\* (acc, range) => insertRange(range, acc), one step of the reduce. The
\* ranges come in the order the sort before the reduce has left them in;
\* every range in every order is taken here
InsertRange ==
  /\ ins.rendering
  /\ ins.n < MaxInserts
  /\ \E r \in BodyRanges :
    LET range == [start |-> r.start, length |-> r.length, id |-> ins.n + 1]
        threw == insertRangeThrows(range, tree)
    IN
    /\ tree' = IF threw THEN tree ELSE insertRange(range, tree)
    /\ ins' = [ins EXCEPT !.n = ins.n + 1, !.range = range, !.into = tree,
                          !.threw = threw]
    /\ UNCHANGED << sorting, recoveryVars, concVars, sendVars, queueVars,
                    protoVars >>

NextTree ==
  \/ MessageTextRenderer
  \/ InsertRange

SpecTree == Init /\ [][NextTree]_vars

RECURSIVE WellFormed(_, _)
\* every list of siblings in the tree is sorted by start, its nodes do not
\* overlap, and every node lies within 0 .. limit, the length of its parent
WellFormed(rangeTree, limit) ==
  /\ \A i \in DOMAIN rangeTree :
       /\ rangeTree[i].start >= 0
       /\ rangeTree[i].length >= 0
       /\ rangeTree[i].start + rangeTree[i].length <= limit
       /\ WellFormed(rangeTree[i].ranges, rangeTree[i].length)
  /\ \A i \in DOMAIN rangeTree : \A j \in DOMAIN rangeTree :
       i < j =>
         /\ rangeTree[i].start <= rangeTree[j].start
         /\ rangeTree[i].start + rangeTree[i].length <= rangeTree[j].start

RECURSIVE Depth(_)
\* the number of levels of the tree
Depth(rangeTree) ==
  IF rangeTree = << >> THEN 0
  ELSE LET d == Depth(Head(rangeTree).ranges) + 1
           e == Depth(Tail(rangeTree))
       IN IF d >= e THEN d ELSE e

\* C33: every tree built from the empty tree by insertRange, whatever the
\* ranges and their order, has its sibling lists sorted by start with no two
\* nodes overlapping, and every nested node within the length of its parent;
\* the same holds of the trees the renderer builds from the links of a text
C33_TreeWellFormed ==
  /\ WellFormed(tree, TextLen)
  /\ ~ins.threw

\* starting from the empty tree, three ranges inserted shortest first, each
\* containing the one before: the tree is three levels deep
C33_Witness ==
  /\ ins.rendering
  /\ ins.links = << >>
  /\ ins.n = 3
  /\ ins.range.length > ins.into[1].length
  /\ Len(ins.into) = 1
  /\ Depth(ins.into) = 2
  /\ Depth(tree) = 3

RECURSIVE Flatten(_, _, _)
\* the nodes of the tree, parents before their nested nodes, each with its
\* absolute start (the starts of its ancestors added up) and its path, the
\* indexes leading to it from the top level
Flatten(rangeTree, offset, path) ==
  IF rangeTree = << >> THEN << >>
  ELSE
    LET k == Len(rangeTree)
        node == rangeTree[k]
        here == path \o << k >>
    IN
    Flatten(SubSeq(rangeTree, 1, k - 1), offset, path)
    \o << [start |-> offset + node.start, length |-> node.length,
           id |-> node.id, path |-> here] >>
    \o Flatten(node.ranges, offset + node.start, here)

RECURSIVE WithoutId(_, _)
\* the tree with the nodes of one id taken out
WithoutId(rangeTree, id) ==
  IF rangeTree = << >> THEN << >>
  ELSE
    LET current == Head(rangeTree)
    IN
    (IF current.id = id THEN << >>
     ELSE << [current EXCEPT !.ranges = WithoutId(current.ranges, id)] >>)
    \o WithoutId(Tail(rangeTree), id)

\* the positions a flattened node covers
Positions(n) == n.start .. (n.start + n.length - 1)

\* path p leads to an ancestor of the node at path q
IsAncestor(p, q) == Len(p) < Len(q) /\ SubSeq(q, 1, Len(p)) = p

----------------------------------------------------------------------------
(* SpecAnyTree: insertRange called on any tree of nodes with non-negative   *)
(* starts and lengths, whether or not insertRange could have built it:      *)
(* siblings may overlap or be out of order, a nested node may stick out of  *)
(* its parent.                                                              *)

MaxNodeLen == 2   \* longest node of the trees insertRange is called on

\* the nodes of those trees, before their ids and nested ranges are set
AnyNodes == [start : 0 .. (TextLen - 1), length : 0 .. MaxNodeLen]

\* up to two nodes at the top level, the first with up to one nested node
AnyTrees ==
  LET as(n, id) == [start |-> n.start, length |-> n.length, id |-> id]
      leaf(n, id) == Node(as(n, id), n.start, n.length, << >>)
      firsts == { leaf(n, 1) : n \in AnyNodes }
                  \cup { Node(as(n, 1), n.start, n.length, << leaf(c, 2) >>) :
                           n \in AnyNodes, c \in AnyNodes }
  IN {<< >>}
       \cup { << f >> : f \in firsts }
       \cup { << f, leaf(n, 3) >> : f \in firsts, n \in AnyNodes }

\* insertRange(range, rangeTree) for any range and any such tree, one call
\* at a time
InsertIntoTree ==
  /\ ins.n = 0
  /\ \E r \in BodyRanges, rangeTree \in AnyTrees :
    LET range == [start |-> r.start, length |-> r.length, id |-> 4]
        threw == insertRangeThrows(range, rangeTree)
    IN
    /\ tree' = IF threw THEN rangeTree ELSE insertRange(range, rangeTree)
    /\ ins' = [NoInsert EXCEPT !.n = 1, !.range = range, !.into = rangeTree,
                               !.threw = threw]
    /\ UNCHANGED << sorting, recoveryVars, concVars, sendVars, queueVars,
                    protoVars >>

\* the call has returned or thrown; insertRange is called again, with
\* another range and another tree
InsertReturned ==
  /\ ins.n > 0
  /\ tree' = << >>
  /\ ins' = NoInsert
  /\ UNCHANGED << sorting, recoveryVars, concVars, sendVars, queueVars,
                  protoVars >>

NextAnyTree ==
  \/ InsertIntoTree
  \/ InsertReturned

SpecAnyTree == Init /\ [][NextAnyTree]_vars

\* the pieces the last inserted range was split into
PiecesOfLast ==
  LET flat == Flatten(tree, 0, << >>)
  IN { flat[k] : k \in { i \in DOMAIN flat : flat[i].id = ins.range.id } }

\* the nodes that were in the tree before the last insert
ExistingOfLast ==
  LET flat == Flatten(tree, 0, << >>)
  IN { flat[k] : k \in { i \in DOMAIN flat : flat[i].id # ins.range.id } }

\* C32: called on any tree whose sibling lists are sorted and do not
\* overlap, insertRange splits the inserted range at the boundaries of the
\* existing nodes and leaves those nodes as they were: taking the pieces out
\* gives back the tree as it was; the pieces, at their absolute positions,
\* are pairwise disjoint and cover exactly start .. start + length - 1; a
\* piece never straddles a boundary of an existing node, and a piece that
\* falls inside an existing node is nested in it, its start relative to it
C32_SplitAtBoundaries ==
  (ins.n > 0 /\ WellFormed(ins.into, TextLen)) =>
    /\ ~ins.threw
    /\ WithoutId(tree, ins.range.id) = ins.into
    /\ \A p \in PiecesOfLast : \A q \in PiecesOfLast :
         p # q => Positions(p) \cap Positions(q) = {}
    /\ UNION { Positions(p) : p \in PiecesOfLast }
         = ins.range.start .. (ins.range.start + ins.range.length - 1)
    /\ \A p \in PiecesOfLast :
         /\ p.start >= ins.range.start
         /\ p.start + p.length <= ins.range.start + ins.range.length
         /\ \A e \in ExistingOfLast :
              \/ Positions(p) \cap Positions(e) = {}
              \/ /\ Positions(p) \subseteq Positions(e)
                 /\ IsAncestor(e.path, p.path)
                 /\ p.start >= e.start
    /\ ins.range.length > 0 => PiecesOfLast # {}

\* a range inserted over a nested pair of nodes and past both ends of the
\* outer one: a piece before, a piece nested two levels deep, a piece after
C32_Witness ==
  /\ ins.n > 0
  /\ ~ins.threw
  /\ WellFormed(ins.into, TextLen)
  /\ Depth(ins.into) = 2
  /\ \E p \in PiecesOfLast : Len(p.path) = 3 /\ p.length > 0
  /\ \E p \in PiecesOfLast : Len(p.path) = 1 /\ p.length > 0
                             /\ p.start = ins.range.start
  /\ \E p \in PiecesOfLast : Len(p.path) = 1 /\ p.length > 0
                             /\ p.start > ins.range.start

RECURSIVE NodeCount(_)
\* the number of nodes of the tree, nested ones included
NodeCount(rangeTree) ==
  IF rangeTree = << >> THEN 0
  ELSE 1 + NodeCount(Head(rangeTree).ranges) + NodeCount(Tail(rangeTree))

\* the four tests insertRange makes once the range is known to overlap
\* current, as written in the code, that hold of the range and current
OverlapGuards(range, current) ==
  LET rangeEnd == range.start + range.length
      currentEnd == current.start + current.length
  IN
  { g \in {"contained", "contains", "intersectsBeginning", "intersectsEnding"} :
      \/ g = "contained"
           /\ range.start >= current.start /\ rangeEnd <= currentEnd
      \/ g = "contains"
           /\ range.start < current.start /\ rangeEnd > currentEnd
      \/ g = "intersectsBeginning"
           /\ range.start < current.start /\ rangeEnd <= currentEnd
      \/ g = "intersectsEnding"
           /\ range.start >= current.start /\ rangeEnd > currentEnd }

\* C40: insertRange is total: for every range and every tree with
\* non-negative starts and lengths, zero lengths and coinciding ends
\* included, every call it makes on a non-empty tree takes one of the six
\* cases and never the final throw; a range that is neither before nor after
\* current satisfies exactly one of the four remaining tests; and the number
\* of calls is bounded by the size of the tree, each call going into the
\* nested ranges or the rest of the list it was given
C40_InsertRangeTotal ==
  ins.n > 0 =>
    LET calls == insertRangeCalls(ins.range, ins.into)
    IN
    /\ ~ins.threw
    /\ Len(calls) <= 2 * NodeCount(ins.into) + 1
    /\ \A k \in DOMAIN calls :
         /\ calls[k].range.start >= 0
         /\ calls[k].range.length >= 0
         /\ calls[k].case \in {"empty", "before", "after", "contained",
                               "contains", "intersectsBeginning",
                               "intersectsEnding"}
         /\ calls[k].case \notin {"empty", "before", "after"} =>
              OverlapGuards(calls[k].range, calls[k].current)
                = {calls[k].case}

\* a zero-length range at the very end of a node that has a nested node
\* ending there too and a sibling starting there: the range is taken as
\* after the first node and before the second
C40_Witness ==
  /\ ins.n > 0
  /\ ~ins.threw
  /\ ins.range.length = 0
  /\ Len(ins.into) = 2
  /\ ins.into[1].length > 0
  /\ ins.into[1].ranges # << >>
  /\ ins.range.start = ins.into[1].start + ins.into[1].length
  /\ ins.range.start = ins.into[2].start
  /\ Len(tree) = 3
  /\ tree[2].id = ins.range.id

----------------------------------------------------------------------------
(* types/BodyRange: sortRanges orders the ranges of a message before they   *)
(* are inserted into the tree. A range here is [start, length, kind, tag]:  *)
(* kind tells a mention from a style, tag is its index in the input and     *)
(* stands for the object itself.                                            *)

MaxRanges == 4    \* ranges of one message given to sortRanges

\* BodyRange.isMention: the range has a mentionUuid
isMention(range) == range.kind = "mention"

\* faulty comparator: shorter ranges first
compareRangesAscendingLength(a, b) ==
  IF isMention(a) THEN (IF isMention(b) THEN 0 ELSE 1)
  ELSE IF isMention(b) THEN -1
  ELSE IF a.length # b.length THEN a.length - b.length
  ELSE a.start - b.start

\* the comparator sortRanges gives to Array.prototype.sort
compareRanges(a, b) ==
  IF isMention(a) THEN (IF isMention(b) THEN 0 ELSE 1)
  ELSE IF isMention(b) THEN -1
  ELSE IF a.length # b.length THEN b.length - a.length
  ELSE a.start - b.start

RECURSIVE InsertSorted(_, _)
\* x put into a sorted list, behind every element it does not come before
InsertSorted(x, sorted) ==
  IF sorted = << >> THEN << x >>
  ELSE
    LET n == Len(sorted)
    IN
    IF compareRanges(x, sorted[n]) < 0
      THEN InsertSorted(x, SubSeq(sorted, 1, n - 1)) \o << sorted[n] >>
    ELSE sorted \o << x >>

RECURSIVE sortRanges(_)
\* ranges.sort(compare): Array.prototype.sort is stable, elements that
\* compare equal keep their input order
sortRanges(ranges) ==
  IF ranges = << >> THEN << >>
  ELSE
    LET n == Len(ranges)
    IN InsertSorted(ranges[n], sortRanges(SubSeq(ranges, 1, n - 1)))

\* what a range given to sortRanges can be, its tag aside
SortableRanges == [start : 0 .. 1, length : 1 .. 2, kind : {"mention", "style"}]

\* the arrays of n ranges sortRanges is called with: element k carries tag k
SortInputs(n) ==
  { [k \in 1 .. n |-> [start |-> f[k].start, length |-> f[k].length,
                       kind |-> f[k].kind, tag |-> k]] :
      f \in [1 .. n -> SortableRanges] }

\* sortRanges(ranges)
SortRanges ==
  /\ ~sorting.ran
  /\ \E n \in 0 .. MaxRanges : \E ranges \in SortInputs(n) :
       sorting' = [ran |-> TRUE, input |-> ranges, output |-> sortRanges(ranges)]
  /\ UNCHANGED << tree, ins, recoveryVars, concVars, sendVars, queueVars,
                  protoVars >>

\* the result is used; sortRanges is called for another message
ClearSort ==
  /\ sorting.ran
  /\ sorting' = NoSort
  /\ UNCHANGED << tree, ins, recoveryVars, concVars, sendVars, queueVars,
                  protoVars >>

NextSort ==
  \/ SortRanges
  \/ ClearSort

SpecSort == Init /\ [][NextSort]_vars

\* C34: sortRanges returns a permutation of its input in which every
\* non-mention precedes every mention, non-mentions are in descending order
\* of length and, among equal lengths, in ascending order of start, and
\* mentions keep their input order
C34_SortRangesOrder ==
  sorting.ran =>
    LET input == sorting.input
        out == sorting.output
    IN
    /\ Len(out) = Len(input)
    /\ \A k \in DOMAIN input : \E i \in DOMAIN out : out[i] = input[k]
    /\ \A i \in DOMAIN out : \A j \in DOMAIN out :
         i < j =>
           /\ ~(isMention(out[i]) /\ ~isMention(out[j]))
           /\ (~isMention(out[i]) /\ ~isMention(out[j])) =>
                \/ out[i].length > out[j].length
                \/ /\ out[i].length = out[j].length
                   /\ out[i].start <= out[j].start
           /\ (isMention(out[i]) /\ isMention(out[j])) =>
                out[i].tag < out[j].tag

\* two mentions, the shorter first, then two styles, the shorter first: the
\* styles come out first and swapped, the mentions last and in input order
C34_Witness ==
  /\ sorting.ran
  /\ Len(sorting.input) = 4
  /\ isMention(sorting.input[1]) /\ isMention(sorting.input[2])
  /\ sorting.input[1].length < sorting.input[2].length
  /\ ~isMention(sorting.input[3]) /\ ~isMention(sorting.input[4])
  /\ sorting.input[3].length < sorting.input[4].length
  /\ sorting.output = << sorting.input[4], sorting.input[3],
                         sorting.input[1], sorting.input[2] >>

====
